---- MODULE Spec2Model ----
(***************************************************************************)
(* A model of the stream lifecycle and buffering core of Twitch-Tools:     *)
(*   - StreamManager (src/utils/stream_manager.py): status hysteresis,     *)
(*     download sessions, clip buffers and the rolling clip loop;          *)
(*   - FastM3U8DownloadThread (src/gui/m3u8_downloader.py): URL            *)
(*     normalisation, trimming, the parallel segment job.                  *)
(* Each component has its own specification over the shared variables:     *)
(*   Spec      StreamManager's handlers                                    *)
(*   SpecClip  the rolling clip loop of one channel                        *)
(*   SpecJob   one segment job (run, workers, stop/abort/pause)            *)
(*   SpecTrim  trim_segments as a function of its inputs                   *)
(*   SpecUrl   transform_url / parse_m3u8 as a function of its inputs      *)
(*   SpecScan       one scan of the clip loop over a listing by name       *)
(*   SpecSession    the clip sessions of one channel, by statement         *)
(*   SpecPause      pause/resume/stop/abort against _check_pause           *)
(*   SpecKill       stopping a supervised process                          *)
(*   SpecProbe      two probe threads in _handle_status_update             *)
(*   SpecLifecycle  two concurrent lifecycle calls for one channel         *)
(*   SpecCard       the streamer cards over StreamManager's sessions       *)
(*   SpecJobFair, SpecSessionFair  SpecJob and SpecSession with their      *)
(*                  threads scheduled fairly                               *)
(***************************************************************************)
EXTENDS Integers, Sequences, FiniteSets, TLC

VARIABLES
    \* ---- StreamManager (stream_manager.py:21-29)
    active_downloads,       \* dict streamer -> session record
    active_clips,           \* dict streamer -> the recording thread
    clip_buffers,           \* dict streamer -> buffer record
    offline_confirmations,  \* dict streamer -> consecutive offline checks
    last_known_status,      \* dict streamer -> bool
    temp_dirs,              \* the clip temp directories that exist on disk
    dir_segments,           \* for each of them, what glob('segment_*.ts') finds in it
    returned,               \* what the last handler returned
    status_updated,         \* the status_updated signals the last handler emitted
    effects,                \* the process and file system calls the last handler made
    op,                     \* the handler that ran last and its arguments
    \* ---- FastM3U8DownloadThread.parse_m3u8 / transform_url
    url_line,               \* a segment URL extracted from the manifest, as characters
    stored_urls,            \* segment_urls: the URLs parse_m3u8 has stored
    transform_count,        \* self._transform_count
    \* ---- FastM3U8DownloadThread.run: the parsed manifest and the trim window
    segment_urls,           \* the segment URLs, each named by its manifest index
    segment_durations,      \* the segment durations, in seconds
    start_time,             \* self.start_time: None or seconds
    duration,               \* self.duration: None or seconds
    pc,                     \* where run() is
    \* ---- FastM3U8DownloadThread: one segment job (m3u8_downloader.py:632-656)
    should_stop,            \* self._should_stop
    should_abort,           \* self._should_abort
    is_paused,              \* self._is_paused
    temp_dir,               \* self.temp_dir on disk: "none", "exists", "removed"
    total_segments,         \* self.total_segments
    downloaded_segments,    \* self.downloaded_segments
    completed_segments,     \* the keys of self.completed_segments, in insertion order
    failed_segments,        \* self.failed_segments
    retry_count,            \* run()'s retry_count
    task,                   \* the state of each segment's future in the current pool
    concat_list,            \* the segments listed in concat_list.txt, in file order
    concat_result,          \* _concatenate_segments: "not run", "no segments", "ok", "error"
    output_path,            \* self.output_path on disk: "none" or "written"
    download_finished,      \* the download_finished signals emitted so far
    temp_dir_at_emit,       \* what temp_dir was on disk when the last of them was emitted
    \* ---- StreamManager._clip_recording_loop for one channel (stream_manager.py:285-389)
    clip_time,              \* seconds since the loop spawned its two processes
    seg_dir,                \* the numbers n of the files segment_<n>.ts in temp_dir
    next_segment,           \* the number of the segmenter's next file
    seg_files,              \* the loop's seg_files: its latest sorted listing
    old_segs,               \* seg_files[:-max_segments] of that listing
    evict_i,                \* how many of old_segs the for-loop has been through
    loop_pc,                \* "loop", "remove", "sleep", "ended"
    wake_at,                \* when the pending time.sleep(1) ends
    idle,                   \* the loop has listed the directory since its last change
    stop_flag,              \* buffer_info['stop_flag']
    stream_proc,            \* streamlink: "running" or "exited"
    segmenter_proc,         \* ffmpeg: "running" or "exited"
    is_running,             \* buffer_info['is_running']
    \* ---- one channel's clip sessions, statement by statement (stream_manager.py:255-426)
    gui_pc,                 \* where the caller of stop_clipping is
    gui_call,               \* the handler that called it
    buffers,                \* the buffer dicts start_clipping created, by session number
    threads,                \* the recording threads and their two processes, by session number
    join_elapsed,           \* seconds of thread.join() the joined thread has spent in wait()
    \* ---- handlers running concurrently, statement by statement
    call_pc,                \* where each concurrent caller is
    call_local,             \* its local variables
    pause_mutex,            \* the holder of pause_mutex, or "free"
    spawned                 \* the processes Popen has created and their state

smVars == <<active_downloads, active_clips, clip_buffers, offline_confirmations,
            last_known_status, temp_dirs, dir_segments, returned,
            status_updated, effects, op>>

urlVars == <<url_line, stored_urls, transform_count>>

trimVars == <<segment_urls, segment_durations, start_time, duration, pc>>

jobVars == <<should_stop, should_abort, is_paused, temp_dir, total_segments,
             downloaded_segments, completed_segments, failed_segments, retry_count,
             task, concat_list, concat_result, output_path, download_finished, temp_dir_at_emit>>

clipVars == <<clip_time, seg_dir, next_segment, seg_files, old_segs, evict_i, loop_pc,
              wake_at, idle, stop_flag, stream_proc, segmenter_proc, is_running>>

sessVars == <<gui_pc, gui_call, buffers, threads, join_elapsed>>

concVars == <<call_pc, call_local, pause_mutex, spawned>>

vars == <<smVars, urlVars, trimVars, jobVars, clipVars, sessVars, concVars>>

\* A None, an argument a handler does not have.
Absent == "absent"

Range(s) == {s[i] : i \in DOMAIN s}

\* An optional number: None, or a value.
None == << >>
Some(x) == <<x>>

\* The sum of a list of numbers.
RECURSIVE Sum(_)
Sum(s) == IF s = << >> THEN 0 ELSE Head(s) + Sum(Tail(s))

\* Python's seq[a:b] for 0 <= a, 0 <= b.
Slice(s, a, b) == SubSeq(s, a + 1, IF b > Len(s) THEN Len(s) ELSE b)

(***************************************************************************)
(* StreamManager                                                           *)
(***************************************************************************)

\* The channel names of the model. Names are dict keys, compared as strings.
Channels == {"foo", "Foo"}
Formats == {"mp4"}
\* The values random.randint(100000, 999999) returns.
RandomNumbers == {100000, 999999}
\* The values datetime.now() returns.
Times == {0}

OFFLINE_CONFIRMATIONS_NEEDED == 3

\* A dict is a function whose domain is its set of keys.
EmptyDict == << >>

\* dict.get(key, default)
DictGet(d, k, default) == IF k \in DOMAIN d THEN d[k] ELSE default

\* d[k] = v
DictSet(d, k, v) == [x \in DOMAIN d \cup {k} |-> IF x = k THEN v ELSE d[x]]

DictDel_kept(d, k) == d
\* del d[k]
DictDel(d, k) == [x \in DOMAIN d \ {k} |-> d[x]]

NoOp == [name |-> "init", streamer |-> Absent, arg |-> Absent]

SMInit ==
    /\ active_downloads = EmptyDict
    /\ active_clips = EmptyDict
    /\ clip_buffers = EmptyDict
    /\ offline_confirmations = EmptyDict
    /\ last_known_status = EmptyDict
    /\ temp_dirs = {}
    /\ dir_segments = EmptyDict
    /\ returned = Absent
    /\ status_updated = << >>
    /\ effects = << >>
    /\ op = NoOp

\* streamer_name in self.active_downloads or streamer_name in self.active_clips
HasActiveSession(streamer_name) ==
    streamer_name \in DOMAIN active_downloads \/ streamer_name \in DOMAIN active_clips

OfflineConfirmed_gt(n) == n > OFFLINE_CONFIRMATIONS_NEEDED
\* self.offline_confirmations[streamer_name] >= self.OFFLINE_CONFIRMATIONS_NEEDED
OfflineConfirmed(n) == n >= OFFLINE_CONFIRMATIONS_NEEDED

ConfirmationsAfterLive_kept(n) == n
\* line 86: self.offline_confirmations[streamer_name] = 0
ConfirmationsAfterLive(n) == 0

NeedsConfirmation_bySession(last_status, active) == active
\* line 92: if last_status and (streamer_name in self.active_downloads or ...)
NeedsConfirmation(last_status, active) == last_status /\ active

_handle_status_update(streamer_name, is_live) ==
    LET last_status == DictGet(last_known_status, streamer_name, FALSE) IN
    IF is_live
    THEN /\ offline_confirmations' =
              DictSet(offline_confirmations, streamer_name,
                      ConfirmationsAfterLive(DictGet(offline_confirmations, streamer_name, 0)))
         /\ last_known_status' = DictSet(last_known_status, streamer_name, TRUE)
         /\ status_updated' = << <<streamer_name, TRUE>> >>
    ELSE IF NeedsConfirmation(last_status, HasActiveSession(streamer_name))
         THEN LET n == DictGet(offline_confirmations, streamer_name, 0) + 1 IN
              IF OfflineConfirmed(n)
              THEN /\ last_known_status' = DictSet(last_known_status, streamer_name, FALSE)
                   /\ status_updated' = << <<streamer_name, FALSE>> >>
                   /\ offline_confirmations' = DictSet(offline_confirmations, streamer_name, 0)
              ELSE /\ offline_confirmations' = DictSet(offline_confirmations, streamer_name, n)
                   /\ status_updated' = << >>
                   /\ UNCHANGED last_known_status
         ELSE /\ last_known_status' = DictSet(last_known_status, streamer_name, FALSE)
              /\ status_updated' = << <<streamer_name, FALSE>> >>
              /\ offline_confirmations' = DictSet(offline_confirmations, streamer_name, 0)

\* The probe of check_streamer_status: "live", "offline", or "raise" when
\* subprocess.run raises (an error or the 10 s timeout).
ProbeResults == {"live", "offline", "raise"}

ErrorMeansOffline_always(active) == TRUE
\* line 50: if streamer_name not in self.active_downloads and ... not in self.active_clips
ErrorMeansOffline(active) == ~active

check_streamer_status(streamer_name, probe) ==
    /\ IF probe = "raise"
       THEN /\ status_updated' = IF ErrorMeansOffline(HasActiveSession(streamer_name))
                                 THEN << <<streamer_name, FALSE>> >>
                                 ELSE << >>
            /\ UNCHANGED <<offline_confirmations, last_known_status>>
       ELSE _handle_status_update(streamer_name, probe = "live")
    /\ effects' = << >>
    /\ op' = [name |-> "check_streamer_status", streamer |-> streamer_name, arg |-> probe]
    /\ returned' = Absent
    /\ UNCHANGED dir_segments
    /\ UNCHANGED <<active_downloads, active_clips, clip_buffers, temp_dirs>>

\* config.get_streamer_vod_path: base_path / streamer_name / "VODs"
get_streamer_vod_path(streamer_name) == <<"Output", streamer_name, "VODs">>

\* FileNamingUtils.generate_live_vod_name: "[Live] name - date - random.ext"
generate_live_vod_name(streamer_name, extension, date_str, random_num) ==
    <<"[Live]", streamer_name, date_str, random_num, extension>>

AlreadyDownloading_never(streamer_name) == FALSE
\* if streamer_name in self.active_downloads: return
AlreadyDownloading(streamer_name) == streamer_name \in DOMAIN active_downloads

\* A session's 'process' is the Popen object, modelled by the state of its process:
\* "running", "exited" (it ended on its own), "terminated", "killed".
start_download(streamer_name, quality, output_format, download_path) ==
    /\ IF AlreadyDownloading(streamer_name)
       THEN UNCHANGED active_downloads /\ effects' = << >>
       ELSE \E random_num \in RandomNumbers, now \in Times :
               LET filename == generate_live_vod_name(streamer_name, output_format,
                                                      now, random_num)
                   output_file == <<get_streamer_vod_path(streamer_name), filename>>
               IN  /\ effects' = <<"makedirs", "Popen", "Thread.start">>
                   /\ active_downloads' =
                        DictSet(active_downloads, streamer_name,
                           [process |-> "running",
                            output_file |-> output_file,
                            start_time |-> now,
                            filename |-> filename])
    /\ status_updated' = << >>
    /\ op' = [name |-> "start_download", streamer |-> streamer_name, arg |-> output_format]
    /\ returned' = Absent
    /\ UNCHANGED dir_segments
    /\ UNCHANGED <<active_clips, clip_buffers, offline_confirmations, last_known_status,
                   temp_dirs>>

\* process.terminate(); process.wait(timeout=5); on TimeoutExpired process.kill():
\* the calls made, by whether the process ends within the wait.
TerminateCalls == {<<"terminate", "wait">>, <<"terminate", "wait", "kill">>}

stop_download(streamer_name) ==
    /\ IF streamer_name \in DOMAIN active_downloads
       THEN /\ effects' \in TerminateCalls
            /\ active_downloads' = DictDel(active_downloads, streamer_name)
       ELSE UNCHANGED active_downloads /\ effects' = << >>
    /\ status_updated' = << >>
    /\ op' = [name |-> "stop_download", streamer |-> streamer_name, arg |-> Absent]
    /\ returned' = Absent
    /\ UNCHANGED dir_segments
    /\ UNCHANGED <<active_clips, clip_buffers, offline_confirmations, last_known_status,
                   temp_dirs>>

SessionsAfterExit_removed(sessions, streamer_name) == DictDel(sessions, streamer_name)
\* lines 182 and 235-237: the loops of _monitor_download end; no del
SessionsAfterExit(sessions, streamer_name) ==
    [sessions EXCEPT ![streamer_name].process = "exited"]

\* The capture process of a session ends on its own (the stream ended, the tool
\* crashed); _monitor_download's loops end and nothing else changes.
download_process_exits(streamer_name) ==
    /\ streamer_name \in DOMAIN active_downloads
    /\ active_downloads[streamer_name].process = "running"
    /\ active_downloads' = SessionsAfterExit(active_downloads, streamer_name)
    /\ status_updated' = << >>
    /\ effects' = << >>
    /\ op' = [name |-> "download_process_exits", streamer |-> streamer_name, arg |-> Absent]
    /\ returned' = Absent
    /\ UNCHANGED dir_segments
    /\ UNCHANGED <<active_clips, clip_buffers, offline_confirmations, last_known_status,
                   temp_dirs>>

\* The listing of a temp directory, as far as save_clip tells listings apart:
\* empty, or at least one segment file.
NoFiles == << >>
SomeFiles == <<"segment_*.ts">>

mkdtemp_shared(streamer_name) == <<"twitch_clip_", "shared">>
\* tempfile.mkdtemp(prefix=f"twitch_clip_{streamer_name}_")
mkdtemp(streamer_name) == <<"twitch_clip_", streamer_name>>

start_clipping(streamer_name) ==
    /\ IF streamer_name \in DOMAIN active_clips
       THEN UNCHANGED <<clip_buffers, active_clips, temp_dirs, dir_segments>> /\ effects' = << >>
       ELSE /\ temp_dirs' = temp_dirs \cup {mkdtemp(streamer_name)}
            /\ dir_segments' = DictSet(dir_segments, mkdtemp(streamer_name), NoFiles)
            /\ \E now \in Times : clip_buffers' =
                 DictSet(clip_buffers, streamer_name,
                    [temp_dir |-> mkdtemp(streamer_name),
                     stop_flag |-> FALSE,
                     stream_process |-> Absent,
                     segmenter_process |-> Absent,
                     is_running |-> TRUE,
                     start_time |-> now])
            /\ active_clips' = DictSet(active_clips, streamer_name, "started")
            /\ effects' = <<"mkdtemp", "Thread.start">>
    /\ status_updated' = << >>
    /\ op' = [name |-> "start_clipping", streamer |-> streamer_name, arg |-> Absent]
    /\ returned' = Absent
    /\ UNCHANGED <<active_downloads, offline_confirmations, last_known_status>>

\* The recording thread of _clip_recording_loop up to its loop: it spawns the
\* capture source and the segmenter and stores both handles in the buffer.
clip_thread_spawn(streamer_name) ==
    /\ streamer_name \in DOMAIN active_clips
    /\ active_clips[streamer_name] = "started"
    /\ streamer_name \in DOMAIN clip_buffers
    /\ clip_buffers' = [clip_buffers EXCEPT
                          ![streamer_name].stream_process = "running",
                          ![streamer_name].segmenter_process = "running"]
    /\ active_clips' = [active_clips EXCEPT ![streamer_name] = "looping"]
    /\ status_updated' = << >>
    /\ effects' = <<"Popen", "Popen">>
    /\ op' = [name |-> "clip_thread_spawn", streamer |-> streamer_name, arg |-> Absent]
    /\ returned' = Absent
    /\ UNCHANGED dir_segments
    /\ UNCHANGED <<active_downloads, offline_confirmations, last_known_status, temp_dirs>>

\* if buffer_info.get(handle): if proc.poll() is None: terminate / wait / kill
StopCalls(proc) == IF proc = "running" THEN TerminateCalls ELSE {<< >>}

stop_clipping(streamer_name) ==
    /\ IF streamer_name \in DOMAIN clip_buffers
       THEN LET buffer_info == clip_buffers[streamer_name] IN
            /\ \E s1 \in StopCalls(buffer_info.stream_process),
                  s2 \in StopCalls(buffer_info.segmenter_process) :
                 effects' = s1 \o s2
                            \o (IF streamer_name \in DOMAIN active_clips
                                THEN <<"Thread.join">> ELSE << >>)
                            \o (IF buffer_info.temp_dir \in temp_dirs
                                THEN <<"rmtree">> ELSE << >>)
            /\ active_clips' = DictDel(active_clips, streamer_name)
            /\ temp_dirs' = temp_dirs \ {buffer_info.temp_dir}
            /\ dir_segments' = DictDel(dir_segments, buffer_info.temp_dir)
            /\ clip_buffers' = DictDel(clip_buffers, streamer_name)
       ELSE UNCHANGED <<clip_buffers, active_clips, temp_dirs, dir_segments>> /\ effects' = << >>
    /\ status_updated' = << >>
    /\ op' = [name |-> "stop_clipping", streamer |-> streamer_name, arg |-> Absent]
    /\ returned' = Absent
    /\ UNCHANGED <<active_downloads, offline_confirmations, last_known_status>>

\* The segmenter of a buffer writes its first segment_<n>.ts into its temp
\* directory (ffmpeg -f segment, lines 303-315); from then on the directory is
\* never without one, since the loop keeps the newest max_segments files.
segment_written(streamer_name) ==
    /\ streamer_name \in DOMAIN clip_buffers
    /\ clip_buffers[streamer_name].segmenter_process = "running"
    /\ LET temp == clip_buffers[streamer_name].temp_dir IN
       /\ temp \in DOMAIN dir_segments
       /\ dir_segments[temp] = NoFiles
       /\ dir_segments' = [dir_segments EXCEPT ![temp] = SomeFiles]
    /\ status_updated' = << >>
    /\ effects' = << >>
    /\ returned' = Absent
    /\ op' = [name |-> "segment_written", streamer |-> streamer_name, arg |-> Absent]
    /\ UNCHANGED <<active_downloads, active_clips, clip_buffers, offline_confirmations,
                   last_known_status, temp_dirs>>

\* FileNamingUtils.generate_clip_name under Config.get_streamer_clips_path
generate_clip_name(streamer_name, start_timestamp, end_timestamp) ==
    <<streamer_name, "Clips", "[Clip] ", streamer_name, start_timestamp, end_timestamp, ".mp4">>

\* subprocess.run(ffmpeg_cmd): exit status 0 with the output file written, a
\* nonzero exit status, or an exception.
SaveResults == {"ok", "error", "raise"}

SegmentsAfterSave_consumed(segs) == NoFiles
\* lines 456-499: the segment files are globbed and named in concat_list.txt,
\* which ffmpeg reads; none is removed or renamed.
SegmentsAfterSave(segs) == segs

NoSegments_never(segs) == FALSE
\* line 458: if not seg_files
NoSegments(segs) == segs = NoFiles

save_clip(streamer_name) ==
    /\ IF streamer_name \notin DOMAIN clip_buffers
       THEN /\ returned' = Absent
            /\ effects' = << >>
       ELSE LET buffer_info == clip_buffers[streamer_name]
                segs == DictGet(dir_segments, buffer_info.temp_dir, NoFiles)
            IN  IF NoSegments(segs)
                THEN /\ returned' = Absent
                     /\ effects' = <<"makedirs", "glob">>
                ELSE \E result \in SaveResults, now \in Times :
                     /\ effects' = <<"makedirs", "glob", "write concat_list", "ffmpeg">>
                     /\ returned' = IF result = "ok"
                                    THEN generate_clip_name(streamer_name,
                                                            buffer_info.start_time, now)
                                    ELSE Absent
    /\ dir_segments' =
         IF /\ streamer_name \in DOMAIN clip_buffers
            /\ clip_buffers[streamer_name].temp_dir \in DOMAIN dir_segments
            /\ ~NoSegments(dir_segments[clip_buffers[streamer_name].temp_dir])
         THEN [dir_segments EXCEPT ![clip_buffers[streamer_name].temp_dir] =
                                      SegmentsAfterSave(@)]
         ELSE dir_segments
    /\ status_updated' = << >>
    /\ op' = [name |-> "save_clip", streamer |-> streamer_name, arg |-> Absent]
    /\ UNCHANGED <<active_downloads, active_clips, clip_buffers, offline_confirmations,
                   last_known_status, temp_dirs>>

\* n calls of one handler, one for each key of a dict
Calls(handler, keys) == [i \in 1..Cardinality(keys) |-> handler]

Cleared_kept(d) == d
\* lines 77-78: self.offline_confirmations.clear(); self.last_known_status.clear()
Cleared(d) == EmptyDict

stop_all_downloads(force) ==
    /\ effects' = Calls("stop_download", DOMAIN active_downloads)
                   \o Calls("stop_clipping", DOMAIN active_clips)
    /\ active_downloads' = EmptyDict
    /\ active_clips' = [c \in DOMAIN active_clips \ DOMAIN clip_buffers |-> active_clips[c]]
    /\ clip_buffers' = [c \in DOMAIN clip_buffers \ DOMAIN active_clips |-> clip_buffers[c]]
    /\ LET removed == {clip_buffers[c].temp_dir : c \in DOMAIN active_clips \cap DOMAIN clip_buffers}
       IN  /\ temp_dirs' = temp_dirs \ removed
           /\ dir_segments' = [d \in DOMAIN dir_segments \ removed |-> dir_segments[d]]
    /\ IF force
       THEN /\ offline_confirmations' = Cleared(offline_confirmations)
            /\ last_known_status' = Cleared(last_known_status)
       ELSE UNCHANGED <<offline_confirmations, last_known_status>>
    /\ status_updated' = << >>
    /\ returned' = Absent
    /\ op' = [name |-> "stop_all_downloads", streamer |-> Absent, arg |-> force]

\* What the actions of this component leave alone.
smFrame == <<urlVars, trimVars, jobVars, clipVars, sessVars, concVars>>

SMNext ==
    \/ \E c \in Channels, probe \in ProbeResults : check_streamer_status(c, probe) /\ UNCHANGED smFrame
    \/ \E c \in Channels, f \in Formats : start_download(c, "best", f, "ignored") /\ UNCHANGED smFrame
    \/ \E c \in Channels : stop_download(c) /\ UNCHANGED smFrame
    \/ \E c \in Channels : download_process_exits(c) /\ UNCHANGED smFrame
    \/ \E c \in Channels : start_clipping(c) /\ UNCHANGED smFrame
    \/ \E c \in Channels : clip_thread_spawn(c) /\ UNCHANGED smFrame
    \/ \E c \in Channels : stop_clipping(c) /\ UNCHANGED smFrame
    \/ \E c \in Channels : segment_written(c) /\ UNCHANGED smFrame
    \/ \E c \in Channels : save_clip(c) /\ UNCHANGED smFrame
    \/ \E force \in BOOLEAN : stop_all_downloads(force) /\ UNCHANGED smFrame

(***************************************************************************)
(* FastM3U8DownloadThread: URL normalisation                               *)
(***************************************************************************)

\* '-unmuted.ts' and '-muted.ts', character by character.
Unmuted == <<"-", "u", "n", "m", "u", "t", "e", "d", ".", "t", "s">>
Muted == <<"-", "m", "u", "t", "e", "d", ".", "t", "s">>

\* str.endswith
EndsWith(str, suffix) ==
    /\ Len(str) >= Len(suffix)
    /\ SubSeq(str, Len(str) - Len(suffix) + 1, Len(str)) = suffix

\* str.replace(old, new): every non-overlapping occurrence, from the left.
RECURSIVE StrReplace(_, _, _)
StrReplace(str, old, new) ==
    IF Len(str) < Len(old) THEN str
    ELSE IF SubSeq(str, 1, Len(old)) = old
         THEN new \o StrReplace(SubSeq(str, Len(old) + 1, Len(str)), old, new)
         ELSE <<Head(str)>> \o StrReplace(Tail(str), old, new)

\* transform_url's return value.
transform_url(url) ==
    IF EndsWith(url, Unmuted) THEN StrReplace(url, Unmuted, Muted) ELSE url

\* The URLs of the model: up to MaxPieces pieces, each a fragment of a URL.
MaxPieces == 3
UrlPieces == { <<"a">>, <<"/">>, <<".", "t", "s">>, <<"-", "u", "n">>, Muted, Unmuted }

RECURSIVE Flatten(_)
Flatten(ss) == IF ss = << >> THEN << >> ELSE Head(ss) \o Flatten(Tail(ss))

UrlInputs ==
    { Flatten(ps) : ps \in UNION { [1..n -> UrlPieces] : n \in 1..MaxPieces } }

UrlIdle ==
    /\ url_line = << >>
    /\ stored_urls = << >>
    /\ transform_count = 0

UrlInit ==
    /\ url_line \in UrlInputs
    /\ stored_urls = << >>
    /\ transform_count = 0

\* parse_m3u8 on one extracted segment URL: transform it and store it.
parse_m3u8_url ==
    /\ stored_urls = << >>
    /\ stored_urls' = Append(stored_urls, transform_url(url_line))
    /\ transform_count' = IF EndsWith(url_line, Unmuted)
                          THEN transform_count + 1 ELSE transform_count
    /\ UNCHANGED url_line

UrlNext == parse_m3u8_url /\ UNCHANGED <<smVars, trimVars, jobVars, clipVars, sessVars, concVars>>

(***************************************************************************)
(* FastM3U8DownloadThread: the trim window                                 *)
(***************************************************************************)

\* trim_segments' first loop: the first index whose cumulative end exceeds
\* start_sec; start_idx keeps its initial 0 when the loop never breaks.
RECURSIVE FindStartIdx_reaches(_, _, _, _)
FindStartIdx_reaches(durs, start_sec, i, current_time) ==
    IF i >= Len(durs) THEN 0
    ELSE IF current_time + durs[i + 1] >= start_sec THEN i
         ELSE FindStartIdx_reaches(durs, start_sec, i + 1, current_time + durs[i + 1])
RECURSIVE FindStartIdx(_, _, _, _)
FindStartIdx(durs, start_sec, i, current_time) ==
    IF i >= Len(durs) THEN 0
    ELSE IF current_time + durs[i + 1] > start_sec THEN i
         ELSE FindStartIdx(durs, start_sec, i + 1, current_time + durs[i + 1])

\* trim_segments' second loop: the first index whose cumulative start reaches
\* end_sec; end_idx keeps its initial len(segment_urls) when the loop never breaks.
RECURSIVE FindEndIdx_inclusive(_, _, _, _)
FindEndIdx_inclusive(durs, end_sec, i, current_time) ==
    IF i >= Len(durs) THEN Len(durs)
    ELSE IF current_time + durs[i + 1] >= end_sec THEN i
         ELSE FindEndIdx_inclusive(durs, end_sec, i + 1, current_time + durs[i + 1])
RECURSIVE FindEndIdx(_, _, _, _)
FindEndIdx(durs, end_sec, i, current_time) ==
    IF i >= Len(durs) THEN Len(durs)
    ELSE IF current_time >= end_sec THEN i
         ELSE FindEndIdx(durs, end_sec, i + 1, current_time + durs[i + 1])

\* trim_segments: the pair of slices it returns.
trim_segments(urls, durs, start_sec, end_sec) ==
    LET start_idx == FindStartIdx(durs, start_sec, 0, 0)
        end_idx == FindEndIdx(durs, end_sec, 0, 0)
    IN  <<Slice(urls, start_idx, end_idx), Slice(durs, start_idx, end_idx)>>

\* run(): end_time = start_time + (duration if duration else sum(durations))
EndTime(durs, st, du) ==
    st[1] + (IF du # None /\ du[1] # 0 THEN du[1] ELSE Sum(durs))

\* run(): the segment list after the optional trim.
TrimWindow(urls, durs, st, du) ==
    IF st # None
    THEN trim_segments(urls, durs, st[1], EndTime(durs, st, du))
    ELSE <<urls, durs>>

\* The URLs of a parsed manifest of n segments, each named by its index.
ManifestUrls(n) == [i \in 1..n |-> i - 1]

\* The manifests, starts and durations of the trim model: every manifest of up to
\* MaxTrimSegs segments of 0..MaxSeconds seconds with windows up to MaxWindow
\* seconds, and the scenario of ten 10-second segments with start 25, duration 40.
MaxTrimSegs == 3
MaxSeconds == 2
MaxWindow == 4
ScenarioDurations == [i \in 1..10 |-> 10]

TrimManifests ==
    UNION { [1..n -> 0..MaxSeconds] : n \in 1..MaxTrimSegs } \cup {ScenarioDurations}
TrimStarts == {None} \cup {Some(t) : t \in 0..MaxWindow} \cup {Some(25)}
TrimDurations == {None} \cup {Some(t) : t \in 0..MaxWindow} \cup {Some(40)}

TrimIdle ==
    /\ segment_urls = << >>
    /\ segment_durations = << >>
    /\ start_time = None
    /\ duration = None
    /\ pc = "idle"

TrimInit ==
    /\ segment_durations \in TrimManifests
    /\ segment_urls = ManifestUrls(Len(segment_durations))
    /\ start_time \in TrimStarts
    /\ duration \in TrimDurations
    /\ pc = "parsed"

\* run() from the parsed manifest to the trimmed segment list.
run_trim ==
    /\ pc = "parsed"
    /\ LET t == TrimWindow(segment_urls, segment_durations, start_time, duration)
       IN  segment_urls' = t[1] /\ segment_durations' = t[2]
    /\ pc' = "trimmed"
    /\ UNCHANGED <<start_time, duration>>

TrimNext == run_trim /\ UNCHANGED <<smVars, urlVars, jobVars, clipVars, sessVars, concVars>>

(***************************************************************************)
(* FastM3U8DownloadThread: the segment job                                 *)
(***************************************************************************)

\* Bounds of the job model: the segments of a manifest and the pool's max_workers.
MaxSegs == 3
MaxWorkers == 2

\* run(): max_retries = 3
max_retries == 3

\* The manifests the job may be given: n segments of one second each, and one
\* segment without #EXTINF, whose duration parse_m3u8 records as 0.
JobManifests == { [i \in 1..n |-> 1] : n \in 0..MaxSegs } \cup { <<0>> }
JobStarts == {None, Some(0), Some(MaxSegs)}
JobDurations == {None}

\* A terminal message: its text and the numbers formatted into it.
Msg(text, a, b) == <<text, a, b>>

JobIdle ==
    /\ should_stop = FALSE
    /\ should_abort = FALSE
    /\ is_paused = FALSE
    /\ temp_dir = "none"
    /\ total_segments = 0
    /\ downloaded_segments = 0
    /\ completed_segments = << >>
    /\ failed_segments = {}
    /\ retry_count = 0
    /\ task = << >>
    /\ concat_list = << >>
    /\ concat_result = "not run"
    /\ output_path = "none"
    /\ download_finished = << >>
    /\ temp_dir_at_emit = "not emitted"

\* The thread object after __init__ and start(): run() is about to begin.
JobInit ==
    /\ JobIdle
    /\ segment_urls = << >>
    /\ segment_durations = << >>
    /\ start_time \in JobStarts
    /\ duration \in JobDurations
    /\ pc = "start"

InFlight == pc \notin {"idle", "done"}

\* ---- the calls of the GUI thread

\* stop(): _should_stop, _force_stop_workers(), resume()
stop ==
    /\ InFlight
    /\ should_stop' = TRUE
    /\ is_paused' = FALSE
    /\ UNCHANGED <<trimVars, should_abort, temp_dir, total_segments, downloaded_segments,
                   completed_segments, failed_segments, retry_count, task, concat_list, concat_result,
                   output_path, download_finished, temp_dir_at_emit>>

\* abort(): _should_abort, _should_stop, _force_stop_workers(), resume()
abort ==
    /\ InFlight
    /\ should_abort' = TRUE
    /\ should_stop' = TRUE
    /\ is_paused' = FALSE
    /\ UNCHANGED <<trimVars, temp_dir, total_segments, downloaded_segments,
                   completed_segments, failed_segments, retry_count, task, concat_list, concat_result,
                   output_path, download_finished, temp_dir_at_emit>>

pause ==
    /\ InFlight
    /\ is_paused' = TRUE
    /\ UNCHANGED <<trimVars, should_stop, should_abort, temp_dir, total_segments,
                   downloaded_segments, completed_segments, failed_segments, retry_count,
                   task, concat_list, concat_result, output_path, download_finished, temp_dir_at_emit>>

resume ==
    /\ InFlight
    /\ is_paused' = FALSE
    /\ UNCHANGED <<trimVars, should_stop, should_abort, temp_dir, total_segments,
                   downloaded_segments, completed_segments, failed_segments, retry_count,
                   task, concat_list, concat_result, output_path, download_finished, temp_dir_at_emit>>

\* ---- _cleanup_temp_files: the temp directory and all it holds are removed.
CleanedUp_never(dir) == dir
CleanedUp(dir) == IF dir = "exists" THEN "removed" ELSE dir

\* lines 979-984: except Exception as e: cleanup, emit (False, 'Download
\* error: ...'); finally: cleanup.  dir is temp_dir on disk when the exception
\* is raised.
Raised(dir) ==
    /\ temp_dir_at_emit' = CleanedUp(dir)
    /\ download_finished' = Append(download_finished, <<FALSE, Msg("Download error", 0, 0)>>)
    /\ temp_dir' = CleanedUp(CleanedUp(dir))
    /\ pc' = "done"

\* What can go wrong between line 878 and the first future: os.makedirs raises,
\* or executor.submit cannot start a worker thread.
RunFaults == {"none", "makedirs", "submit"}
RetryFaults == {"none", "submit"}

\* ---- run(), up to the pool

\* run() lines 855-861: parse_m3u8 returns the manifest's segments; when the
\* fetch or the parse raises it returns [], whose unpacking raises in run().
run_parse ==
    /\ pc = "start"
    /\ \/ \E m \in JobManifests :
            /\ m # << >>
            /\ segment_urls' = ManifestUrls(Len(m))
            /\ segment_durations' = m
            /\ pc' = "parsed"
            /\ UNCHANGED <<download_finished, temp_dir_at_emit>>
       \/ /\ download_finished' =
               Append(download_finished, <<FALSE, Msg("No segments found in M3U8 file", 0, 0)>>)
          /\ temp_dir_at_emit' = temp_dir
          /\ pc' = "done"
          /\ UNCHANGED <<segment_urls, segment_durations>>
       \/ /\ download_finished' =
               Append(download_finished, <<FALSE, Msg("Download error", 0, 0)>>)
          /\ temp_dir_at_emit' = temp_dir
          /\ pc' = "done"
          /\ UNCHANGED <<segment_urls, segment_durations>>
    /\ UNCHANGED <<start_time, duration, should_stop, should_abort, is_paused, temp_dir,
                   total_segments, downloaded_segments, completed_segments,
                   failed_segments, retry_count, task, concat_list, concat_result, output_path>>

\* run() lines 870-888: total_segments, the temp directory, the pool and one
\* future per segment.
run_submit(fault) ==
    /\ pc = "trimmed"
    /\ total_segments' = Len(segment_urls)
    /\ IF Len(segment_urls) = 0
       THEN /\ fault = "none"
            /\ download_finished' =
                Append(download_finished,
                       <<FALSE, Msg("No segments in specified time range", 0, 0)>>)
            /\ temp_dir_at_emit' = temp_dir
            /\ pc' = "done"
            /\ UNCHANGED <<temp_dir, task>>
       ELSE IF fault = "none"
       THEN /\ temp_dir' = "exists"
            /\ task' = [i \in 0..(Len(segment_urls) - 1) |-> "pending"]
            /\ pc' = "initial"
            /\ UNCHANGED <<download_finished, temp_dir_at_emit>>
       ELSE LET made == IF fault = "makedirs" THEN temp_dir ELSE "exists" IN
            /\ Raised(made)
            /\ UNCHANGED task
    /\ UNCHANGED <<segment_urls, segment_durations, start_time, duration, should_stop,
                   should_abort, is_paused, downloaded_segments, completed_segments,
                   failed_segments, retry_count, concat_list, concat_result, output_path>>

\* ---- download_segment, run by a pool worker for segment i

InPool == pc \in {"initial", "initial_break", "retry", "retry_break"}
Segments == DOMAIN task
Running == {i \in Segments : task[i] \in {"entered", "fetching", "writing"}}
Pending == {i \in Segments : task[i] = "pending"}

\* ThreadPoolExecutor(max_workers=...): the pool's size in the current pass.
PoolSize ==
    IF pc \in {"initial", "initial_break"} THEN MaxWorkers
    ELSE IF Cardinality(Segments \ {i \in Segments : task[i] = "none"}) < MaxWorkers
         THEN Cardinality(Segments \ {i \in Segments : task[i] = "none"})
         ELSE MaxWorkers

workerUnchanged == <<trimVars, should_stop, should_abort, is_paused, temp_dir,
                     total_segments, retry_count, concat_list, concat_result, output_path,
                     download_finished, temp_dir_at_emit>>

\* A free worker takes the next future from the pool's queue.  The initial pass
\* queues the futures in index order; a retry pass queues them in the iteration
\* order of the set failed_copy.
worker_take(i) ==
    /\ InPool
    /\ i \in Pending
    /\ Cardinality(Running) < PoolSize
    /\ pc \in {"initial", "initial_break"} => \A j \in Pending : i <= j
    /\ task' = [task EXCEPT ![i] = "entered"]
    /\ UNCHANGED <<workerUnchanged, downloaded_segments, completed_segments,
                   failed_segments>>

AfterFlagCheck_unchecked(stopped, aborted) == "fetching"
\* download_segment lines 794-796: return False when stopped or aborted, else
\* go on to the request.
AfterFlagCheck(stopped, aborted) ==
    IF stopped \/ aborted THEN "done_false" ELSE "fetching"

\* download_segment lines 792-795: _check_pause() blocks while paused and neither
\* stopped nor aborted; then the stop/abort check.
worker_check(i) ==
    /\ InPool
    /\ i \in Segments /\ task[i] = "entered"
    /\ ~(is_paused /\ ~should_stop /\ ~should_abort)
    /\ task' = [task EXCEPT ![i] = AfterFlagCheck(should_stop, should_abort)]
    /\ UNCHANGED <<workerUnchanged, downloaded_segments, completed_segments,
                   failed_segments>>

\* lines 797-802: the request succeeds and the segment file is opened.
worker_fetch(i) ==
    /\ InPool
    /\ i \in Segments /\ task[i] = "fetching"
    /\ task' = [task EXCEPT ![i] = "writing"]
    /\ UNCHANGED <<workerUnchanged, downloaded_segments, completed_segments,
                   failed_segments>>

\* lines 838-850: the request or the streamed read raises.
worker_fail(i) ==
    /\ InPool
    /\ i \in Segments /\ task[i] \in {"fetching", "writing"}
    /\ failed_segments' = failed_segments \cup {i}
    /\ task' = [task EXCEPT ![i] = "done_false"]
    /\ UNCHANGED <<workerUnchanged, downloaded_segments, completed_segments>>

\* lines 804-810: a chunk arrives while stop or abort is set.
worker_interrupted(i) ==
    /\ InPool
    /\ i \in Segments /\ task[i] = "writing"
    /\ should_stop \/ should_abort
    /\ task' = [task EXCEPT ![i] = "done_false"]
    /\ UNCHANGED <<workerUnchanged, downloaded_segments, completed_segments,
                   failed_segments>>

RecordCompleted_dropped(completed, i) == completed
\* completed_segments[segment_index] = segment_path: a new key goes last, an old
\* key keeps its place.
RecordCompleted(completed, i) ==
    IF i \in Range(completed) THEN completed ELSE Append(completed, i)

\* lines 819-836: the last chunk is written; the segment is recorded as completed.
worker_complete(i) ==
    /\ InPool
    /\ i \in Segments /\ task[i] = "writing"
    /\ completed_segments' = RecordCompleted(completed_segments, i)
    /\ downloaded_segments' = downloaded_segments + 1
    /\ task' = [task EXCEPT ![i] = "done_true"]
    /\ UNCHANGED <<workerUnchanged, failed_segments>>

\* ---- run(): the as_completed loops

Done == {i \in Segments : task[i] \in {"done_true", "done_false"}}

ResultFailed_always(failed, i, success) == failed \cup {i}
\* Initial pass, line 904: a False result is added unless already there.
\* Retry pass, line 945: a False result is added.
ResultFailed(failed, i, success) == IF success THEN failed ELSE failed \cup {i}

mainUnchanged == <<trimVars, should_stop, should_abort, is_paused, temp_dir,
                   total_segments, downloaded_segments, completed_segments,
                   concat_list, concat_result, output_path, download_finished, temp_dir_at_emit>>

main_loop_unbroken(i) ==
    /\ pc \in {"initial", "retry"}
    /\ i \in Done
    /\ ~(should_stop \/ should_abort)
    /\ failed_segments' = ResultFailed(failed_segments, i, task[i] = "done_true")
    /\ task' = [task EXCEPT ![i] = "seen"]
    /\ UNCHANGED pc
    /\ UNCHANGED <<segment_urls, segment_durations, start_time, duration, should_stop,
                   should_abort, is_paused, temp_dir, total_segments,
                   downloaded_segments, completed_segments, retry_count, concat_list, concat_result,
                   output_path, download_finished, temp_dir_at_emit>>
\* as_completed yields the finished future of segment i.  With stop or abort set
\* the loop cancels every future that has not started and breaks; otherwise it
\* takes the future's result.
main_loop(i) ==
    /\ pc \in {"initial", "retry"}
    /\ i \in Done
    /\ IF should_stop \/ should_abort
       THEN /\ task' = [j \in Segments |->
                          IF task[j] = "pending" THEN "cancelled" ELSE task[j]]
            /\ pc' = IF pc = "initial" THEN "initial_break" ELSE "retry_break"
            /\ UNCHANGED failed_segments
       ELSE /\ failed_segments' = ResultFailed(failed_segments, i, task[i] = "done_true")
            /\ task' = [task EXCEPT ![i] = "seen"]
            /\ UNCHANGED pc
    /\ UNCHANGED <<segment_urls, segment_durations, start_time, duration, should_stop,
                   should_abort, is_paused, temp_dir, total_segments,
                   downloaded_segments, completed_segments, retry_count, concat_list, concat_result,
                   output_path, download_finished, temp_dir_at_emit>>

\* The with-block of the pool ends: every future was taken, or the loop broke
\* and the workers still running have returned.
pool_exit ==
    /\ \/ pc \in {"initial", "retry"} /\ \A i \in Segments : task[i] \in {"none", "seen"}
       \/ pc \in {"initial_break", "retry_break"} /\ Running = {}
    /\ pc' = IF pc \in {"initial", "initial_break"} THEN "check_abort" ELSE "retry_loop"
    /\ task' = [i \in Segments |-> "none"]
    /\ UNCHANGED <<segment_urls, segment_durations, start_time, duration, should_stop,
                   should_abort, is_paused, temp_dir, total_segments,
                   downloaded_segments, completed_segments, failed_segments,
                   retry_count, concat_list, concat_result, output_path, download_finished, temp_dir_at_emit>>

\* lines 910-914
check_abort ==
    /\ pc = "check_abort"
    /\ IF should_abort
       THEN /\ temp_dir' = CleanedUp(temp_dir)
            /\ temp_dir_at_emit' = CleanedUp(temp_dir)
            /\ download_finished' =
                 Append(download_finished, <<FALSE, Msg("Download aborted by user", 0, 0)>>)
            /\ pc' = "done"
       ELSE /\ pc' = "check_retry"
            /\ UNCHANGED <<temp_dir, download_finished, temp_dir_at_emit>>
    /\ UNCHANGED <<segment_urls, segment_durations, start_time, duration, should_stop,
                   should_abort, is_paused, total_segments, downloaded_segments,
                   completed_segments, failed_segments, retry_count, task, concat_list, concat_result,
                   output_path>>

\* line 917: if self.failed_segments and not self._should_stop
check_retry ==
    /\ pc = "check_retry"
    /\ IF failed_segments # {} /\ ~should_stop
       THEN pc' = "retry_loop" /\ retry_count' = 0
       ELSE pc' = "check_concat" /\ UNCHANGED retry_count
    /\ UNCHANGED <<segment_urls, segment_durations, start_time, duration, should_stop,
                   should_abort, is_paused, temp_dir, total_segments,
                   downloaded_segments, completed_segments, failed_segments, task,
                   concat_list, concat_result, output_path, download_finished, temp_dir_at_emit>>

\* line 922: the condition of the retry while-loop
RetryAgain ==
    /\ failed_segments # {}
    /\ retry_count < max_retries
    /\ ~should_stop
    /\ ~should_abort

ClearedForRetry_kept(failed) == failed
\* lines 924-925: failed_copy = self.failed_segments.copy(); self.failed_segments.clear()
ClearedForRetry(failed) == {}

FailedCopy_all(failed, segments) == segments
\* line 924: failed_copy = self.failed_segments.copy(), the indices line 929
\* submits
FailedCopy(failed, segments) == failed

\* line 922: the while-condition of the retry loop is evaluated.
retry_loop ==
    /\ pc = "retry_loop"
    /\ pc' = IF RetryAgain THEN "retry_submit" ELSE "check_concat"
    /\ UNCHANGED <<segment_urls, segment_durations, start_time, duration, should_stop,
                   should_abort, is_paused, temp_dir, total_segments,
                   downloaded_segments, completed_segments, failed_segments, retry_count,
                   task, concat_list, concat_result, output_path, download_finished,
                   temp_dir_at_emit>>

\* lines 923-931: the body of the loop up to the submissions: one more round
\* over a copy of the failed set.  The flags are not read again before the
\* futures are submitted.
retry_submit(fault) ==
    /\ pc = "retry_submit"
    /\ retry_count' = retry_count + 1
    /\ failed_segments' = ClearedForRetry(failed_segments)
    /\ IF fault = "none"
       THEN /\ task' = [i \in Segments |->
                          IF i \in FailedCopy(failed_segments, Segments)
                          THEN "pending" ELSE "none"]
            /\ pc' = "retry"
            /\ UNCHANGED <<temp_dir, download_finished, temp_dir_at_emit>>
       ELSE /\ Raised(temp_dir)
            /\ UNCHANGED task
    /\ UNCHANGED <<segment_urls, segment_durations, start_time, duration, should_stop,
                   should_abort, is_paused, total_segments,
                   downloaded_segments, completed_segments, concat_list, concat_result, output_path>>

\* ---- _concatenate_segments

ConcatSegmentFiles_insertion(completed, total) == completed
\* lines 989-992: for i in range(total_segments): if i in completed_segments
RECURSIVE ConcatSegmentFiles(_, _)
ConcatSegmentFiles(completed, total) ==
    IF total = 0 THEN << >>
    ELSE ConcatSegmentFiles(completed, total - 1)
         \o (IF (total - 1) \in Range(completed) THEN <<total - 1>> ELSE << >>)

\* The exit status of ffmpeg's concat run.
FfmpegResults == {"ok", "error"}

\* _concatenate_segments' result: False without files, else ffmpeg's exit status.
ConcatResult(segment_files, ffmpeg) ==
    IF segment_files = << >> THEN "no segments" ELSE ffmpeg

Report_unlabelled(stopped, result, failed, downloaded, total) ==
    IF result # "ok" THEN <<FALSE, Msg("Failed to concatenate segments", 0, 0)>>
    ELSE IF failed # {}
    THEN <<TRUE, Msg("Download completed with failed segments", Cardinality(failed), 0)>>
    ELSE <<TRUE, Msg("Download completed successfully!", 0, 0)>>
\* lines 951-977: the terminal signal.  The normal path reports by the result of
\* the concatenation; the stopped path does not look at it.
Report(stopped, result, failed, downloaded, total) ==
    IF ~stopped
    THEN IF result = "ok"
         THEN IF failed # {}
              THEN <<TRUE, Msg("Download completed with failed segments",
                              Cardinality(failed), 0)>>
              ELSE <<TRUE, Msg("Download completed successfully!", 0, 0)>>
         ELSE <<FALSE, Msg("Failed to concatenate segments", 0, 0)>>
    ELSE <<TRUE, Msg("Partial download saved", downloaded, total)>>

\* lines 950-977: concatenate and report, then the finally clause.
concatenate(ffmpeg) ==
    /\ pc = "check_concat"
    /\ LET segment_files == ConcatSegmentFiles(completed_segments, total_segments)
           result == ConcatResult(segment_files, ffmpeg)
       IN  /\ concat_list' = segment_files
           /\ concat_result' = result
           /\ output_path' = IF result = "ok" THEN "written" ELSE output_path
           /\ download_finished' =
                Append(download_finished,
                       Report(should_stop \/ should_abort, result, failed_segments,
                              downloaded_segments, total_segments))
    /\ temp_dir_at_emit' = CleanedUp(temp_dir)
    /\ temp_dir' = CleanedUp(CleanedUp(temp_dir))
    /\ pc' = "done"
    /\ UNCHANGED <<segment_urls, segment_durations, start_time, duration, should_stop,
                   should_abort, is_paused, total_segments, downloaded_segments,
                   completed_segments, failed_segments, retry_count, task>>

\* What the actions of this component leave alone.
jobFrame == <<smVars, urlVars, clipVars, sessVars, concVars>>

JobNext ==
    \/ stop /\ UNCHANGED jobFrame
    \/ abort /\ UNCHANGED jobFrame
    \/ pause /\ UNCHANGED jobFrame
    \/ resume /\ UNCHANGED jobFrame
    \/ run_parse /\ UNCHANGED jobFrame
    \/ run_trim /\ UNCHANGED <<jobVars, jobFrame>>
    \/ \E fault \in RunFaults : run_submit(fault) /\ UNCHANGED jobFrame
    \/ \E i \in 0..(MaxSegs - 1) : worker_take(i) /\ UNCHANGED jobFrame
    \/ \E i \in 0..(MaxSegs - 1) : worker_check(i) /\ UNCHANGED jobFrame
    \/ \E i \in 0..(MaxSegs - 1) : worker_fetch(i) /\ UNCHANGED jobFrame
    \/ \E i \in 0..(MaxSegs - 1) : worker_fail(i) /\ UNCHANGED jobFrame
    \/ \E i \in 0..(MaxSegs - 1) : worker_interrupted(i) /\ UNCHANGED jobFrame
    \/ \E i \in 0..(MaxSegs - 1) : worker_complete(i) /\ UNCHANGED jobFrame
    \/ \E i \in 0..(MaxSegs - 1) : main_loop(i) /\ UNCHANGED jobFrame
    \/ pool_exit /\ UNCHANGED jobFrame
    \/ check_abort /\ UNCHANGED jobFrame
    \/ check_retry /\ UNCHANGED jobFrame
    \/ retry_loop /\ UNCHANGED jobFrame
    \/ \E fault \in RetryFaults : retry_submit(fault) /\ UNCHANGED jobFrame
    \/ \E ffmpeg \in FfmpegResults : concatenate(ffmpeg) /\ UNCHANGED jobFrame

(***************************************************************************)
(* StreamManager._clip_recording_loop: the rolling buffer                  *)
(***************************************************************************)

SEGMENT_DURATION == 10
ROLLING_CLIP_SECONDS == 180

\* line 292
max_segments == ROLLING_CLIP_SECONDS \div SEGMENT_DURATION

\* How long the loop is followed, in seconds.
MaxClipTime == 215

\* sorted(glob.glob(...)): the names segment_%05d.ts sort as their numbers do
\* while the numbers have five digits.
RECURSIVE Sorted(_)
Sorted(S) ==
    IF S = {} THEN << >>
    ELSE LET m == CHOOSE x \in S : \A y \in S : x <= y
         IN  <<m>> \o Sorted(S \ {m})

OldSegments_keepOneMore(files) ==
    IF Len(files) > max_segments
    THEN SubSeq(files, 1, Len(files) - (max_segments + 1)) ELSE << >>
\* lines 365-366: the files the for-loop removes, seg_files[:-max_segments]
OldSegments(files) ==
    IF Len(files) > max_segments
    THEN SubSeq(files, 1, Len(files) - max_segments) ELSE << >>

\* No loop, no buffer.
ClipIdle ==
    /\ clip_time = 0
    /\ seg_dir = {}
    /\ next_segment = 0
    /\ seg_files = << >>
    /\ old_segs = << >>
    /\ evict_i = 0
    /\ loop_pc = "ended"
    /\ wake_at = 0
    /\ idle = FALSE
    /\ stop_flag = FALSE
    /\ stream_proc = "exited"
    /\ segmenter_proc = "exited"
    /\ is_running = FALSE

\* lines 286-355: the loop has spawned streamlink and ffmpeg over the fresh
\* temp directory and is about to test its while-condition.
ClipInit ==
    /\ clip_time = 0
    /\ seg_dir = {}
    /\ next_segment = 0
    /\ seg_files = << >>
    /\ old_segs = << >>
    /\ evict_i = 0
    /\ loop_pc = "loop"
    /\ wake_at = 0
    /\ idle = FALSE
    /\ stop_flag = FALSE
    /\ stream_proc = "running"
    /\ segmenter_proc = "running"
    /\ is_running = TRUE

\* ffmpeg -f segment -segment_time 10: file n is opened 10*n seconds in.
SegmentDue ==
    /\ stream_proc = "running" /\ segmenter_proc = "running"
    /\ clip_time = SEGMENT_DURATION * next_segment

segmenter_writes ==
    /\ SegmentDue
    /\ seg_dir' = seg_dir \cup {next_segment}
    /\ next_segment' = next_segment + 1
    /\ idle' = FALSE
    /\ UNCHANGED <<clip_time, seg_files, old_segs, evict_i, loop_pc, wake_at, stop_flag,
                   stream_proc, segmenter_proc, is_running>>

\* lines 357-366 and 371-389: one test of the while-condition.  The loop ends
\* when the flag is set or a process has exited, and its finally clause
\* terminates what still runs; otherwise it lists the directory and, over
\* max_segments files, starts on the oldest.
clip_scan ==
    /\ loop_pc = "loop"
    /\ IF stop_flag \/ segmenter_proc # "running" \/ stream_proc # "running"
       THEN /\ loop_pc' = "ended"
            /\ stream_proc' = "exited"
            /\ segmenter_proc' = "exited"
            /\ is_running' = FALSE
            /\ UNCHANGED <<seg_files, old_segs, evict_i, idle>>
       ELSE /\ seg_files' = Sorted(seg_dir)
            /\ old_segs' = OldSegments(Sorted(seg_dir))
            /\ evict_i' = 0
            /\ loop_pc' = IF OldSegments(Sorted(seg_dir)) # << >> THEN "remove" ELSE "loop"
            /\ idle' = TRUE
            /\ UNCHANGED <<stream_proc, segmenter_proc, is_running>>
    /\ UNCHANGED <<clip_time, seg_dir, next_segment, wake_at, stop_flag>>

\* lines 367-370: os.remove(old_seg), then time.sleep(1) begins.
clip_remove ==
    /\ loop_pc = "remove"
    /\ seg_dir' = seg_dir \ {old_segs[evict_i + 1]}
    /\ evict_i' = evict_i + 1
    /\ wake_at' = clip_time + 1
    /\ loop_pc' = "sleep"
    /\ UNCHANGED <<clip_time, next_segment, seg_files, old_segs, idle, stop_flag,
                   stream_proc, segmenter_proc, is_running>>

\* time.sleep(1) returns: the next old segment, or back to the while-condition.
clip_wake ==
    /\ loop_pc = "sleep"
    /\ clip_time >= wake_at
    /\ loop_pc' = IF evict_i < Len(old_segs) THEN "remove" ELSE "loop"
    /\ idle' = FALSE
    /\ UNCHANGED <<clip_time, seg_dir, next_segment, seg_files, old_segs, evict_i,
                   wake_at, stop_flag, stream_proc, segmenter_proc, is_running>>

\* A second passes.  The segmenter has opened the file that was due, and the
\* loop, which does not sleep between listings, is asleep in its for-loop or has
\* listed the directory as it now is.
clip_tick ==
    /\ clip_time < MaxClipTime
    /\ ~SegmentDue
    /\ \/ loop_pc = "sleep" /\ clip_time < wake_at
       \/ loop_pc = "loop" /\ idle
    /\ clip_time' = clip_time + 1
    /\ idle' = FALSE
    /\ UNCHANGED <<seg_dir, next_segment, seg_files, old_segs, evict_i, loop_pc, wake_at,
                   stop_flag, stream_proc, segmenter_proc, is_running>>

\* stop_clipping, line 394: buffer_info['stop_flag'].set()
set_stop_flag ==
    /\ loop_pc # "ended"
    /\ ~stop_flag
    /\ stop_flag' = TRUE
    /\ UNCHANGED <<clip_time, seg_dir, next_segment, seg_files, old_segs, evict_i,
                   loop_pc, wake_at, idle, stream_proc, segmenter_proc, is_running>>

\* streamlink exits by itself (the stream ended).
stream_proc_exits ==
    /\ loop_pc # "ended"
    /\ stream_proc = "running"
    /\ stream_proc' = "exited"
    /\ UNCHANGED <<clip_time, seg_dir, next_segment, seg_files, old_segs, evict_i,
                   loop_pc, wake_at, idle, stop_flag, segmenter_proc, is_running>>

\* ffmpeg exits by itself.
segmenter_proc_exits ==
    /\ loop_pc # "ended"
    /\ segmenter_proc = "running"
    /\ segmenter_proc' = "exited"
    /\ UNCHANGED <<clip_time, seg_dir, next_segment, seg_files, old_segs, evict_i,
                   loop_pc, wake_at, idle, stop_flag, stream_proc, is_running>>

\* What the actions of this component leave alone.
clipFrame == <<smVars, urlVars, trimVars, jobVars, sessVars, concVars>>

ClipNext ==
    \/ segmenter_writes /\ UNCHANGED clipFrame
    \/ clip_scan /\ UNCHANGED clipFrame
    \/ clip_remove /\ UNCHANGED clipFrame
    \/ clip_wake /\ UNCHANGED clipFrame
    \/ clip_tick /\ UNCHANGED clipFrame
    \/ set_stop_flag /\ UNCHANGED clipFrame
    \/ stream_proc_exits /\ UNCHANGED clipFrame
    \/ segmenter_proc_exits /\ UNCHANGED clipFrame

(***************************************************************************)
(* StreamManager: one scan of the clip loop, with the files by their names *)
(***************************************************************************)

\* 'segment_%05d.ts': the width of the zero-padded sequence number
PatternWidth == 5

\* The decimal digits of n, most significant first.
RECURSIVE Digits(_)
Digits(n) == IF n < 10 THEN <<n>> ELSE Digits(n \div 10) \o <<n % 10>>

\* '%05d' % n: at least PatternWidth digits, padded with zeros on the left
RECURSIVE ZeroPadded(_, _)
ZeroPadded(digits, width) ==
    IF Len(digits) >= width THEN digits ELSE ZeroPadded(<<0>> \o digits, width)

\* The part of the name 'segment_%05d.ts' after the common prefix, as the code
\* points of its characters: '0' is 48, '.' is 46, 't' 116, 's' 115.
SegmentName(n) ==
    [i \in 1..Len(ZeroPadded(Digits(n), PatternWidth)) |->
        48 + ZeroPadded(Digits(n), PatternWidth)[i]] \o <<46, 116, 115>>

\* a < b for Python strings: the first differing character decides, a proper
\* prefix comes first.
RECURSIVE StrLess(_, _)
StrLess(a, b) ==
    IF b = << >> THEN FALSE
    ELSE IF a = << >> THEN TRUE
    ELSE IF Head(a) # Head(b) THEN Head(a) < Head(b)
    ELSE StrLess(Tail(a), Tail(b))

\* sorted(glob.glob(...)): the files of sequence numbers S in the order of their names
RECURSIVE SortedByName(_)
SortedByName(S) ==
    IF S = {} THEN << >>
    ELSE LET m == CHOOSE x \in S :
                    \A y \in S \ {x} : StrLess(SegmentName(x), SegmentName(y))
         IN  <<m>> \o SortedByName(S \ {m})

\* How many files beyond max_segments a scan finds, and how far the first
\* sequence number of a listing is from 0 and from the first six-digit number.
MaxExtra == 2
MaxBase == 12

ScanBases ==
    (0..MaxBase)
    \cup {10^PatternWidth - d : d \in 1..(max_segments + MaxExtra + MaxBase)}

\* The segmenter numbers its files consecutively and the loop removes the old
\* ones: a listing is a run of consecutive numbers.
ScanInit ==
    /\ \E base \in ScanBases, extra \in 0..MaxExtra :
         seg_dir = base..(base + max_segments + extra - 1)
    /\ next_segment = 0
    /\ clip_time = 0
    /\ seg_files = << >>
    /\ old_segs = << >>
    /\ evict_i = 0
    /\ loop_pc = "loop"
    /\ wake_at = 0
    /\ idle = FALSE
    /\ stop_flag = FALSE
    /\ stream_proc = "running"
    /\ segmenter_proc = "running"
    /\ is_running = TRUE

\* lines 363-370: one listing and the for-loop over seg_files[:-max_segments]
scan_and_evict ==
    /\ loop_pc = "loop"
    /\ seg_files' = SortedByName(seg_dir)
    /\ old_segs' = OldSegments(SortedByName(seg_dir))
    /\ evict_i' = Len(OldSegments(SortedByName(seg_dir)))
    /\ seg_dir' = seg_dir \ Range(OldSegments(SortedByName(seg_dir)))
    /\ loop_pc' = "scanned"
    /\ UNCHANGED <<clip_time, next_segment, wake_at, idle, stop_flag, stream_proc,
                   segmenter_proc, is_running>>

ScanNext == scan_and_evict /\ UNCHANGED clipFrame

(***************************************************************************)
(* StreamManager: the clip sessions of one channel, statement by statement *)
(***************************************************************************)

\* How many times start_clipping creates a session.
MaxStarts == 2
\* proc.wait(timeout=5) of _clip_recording_loop's finally block
WAIT_TIMEOUT == 5
\* thread.join(timeout=10) of stop_clipping
JOIN_TIMEOUT == 10

Sessions == 1..MaxStarts
TheChannel == "foo"

\* A thread start_clipping has not created yet.
NoThread == [pc |-> "unborn", stream_proc |-> Absent, segmenter_proc |-> Absent,
             wait_in_join |-> FALSE]

\* The buffer of a session start_clipping has not created yet.
NoBuffer == [temp_dir |-> << >>, stop_flag |-> FALSE, stream_process |-> Absent,
             segmenter_process |-> Absent, is_running |-> FALSE, start_time |-> 0]

SessionIdle ==
    /\ gui_pc = "idle"
    /\ gui_call = NoOp
    /\ buffers = [g \in Sessions |-> NoBuffer]
    /\ threads = [g \in Sessions |-> NoThread]
    /\ join_elapsed = 0

\* tempfile.mkdtemp gives every session a directory of its own
mkdtemp_session(g) == <<"twitch_clip_", TheChannel, g>>

\* In this specification clip_buffers[c] and active_clips[c] hold the number of
\* the session whose buffer dict and thread they refer to.
start_clipping_session ==
    /\ gui_pc = "idle"
    /\ IF TheChannel \in DOMAIN active_clips
       THEN /\ UNCHANGED <<clip_buffers, active_clips, temp_dirs, dir_segments, buffers, threads>>
            /\ effects' = << >>
       ELSE \E g \in Sessions :
            /\ threads[g].pc = "unborn"
            /\ \A h \in Sessions : h < g => threads[h].pc # "unborn"
            /\ temp_dirs' = temp_dirs \cup {mkdtemp_session(g)}
            /\ dir_segments' = DictSet(dir_segments, mkdtemp_session(g), NoFiles)
            /\ \E now \in Times : buffers' = [buffers EXCEPT ![g] =
                    [temp_dir |-> mkdtemp_session(g),
                     stop_flag |-> FALSE,
                     stream_process |-> Absent,
                     segmenter_process |-> Absent,
                     is_running |-> TRUE,
                     start_time |-> now]]
            /\ clip_buffers' = DictSet(clip_buffers, TheChannel, g)
            /\ threads' = [threads EXCEPT ![g].pc = "start"]
            /\ active_clips' = DictSet(active_clips, TheChannel, g)
            /\ effects' = <<"mkdtemp", "Thread.start">>
    /\ status_updated' = << >>
    /\ returned' = Absent
    /\ op' = [name |-> "start_clipping", streamer |-> TheChannel, arg |-> Absent]
    /\ UNCHANGED <<active_downloads, offline_confirmations, last_known_status,
                   gui_pc, gui_call, join_elapsed>>

\* What a step of a recording thread leaves alone.
threadUnchanged == <<active_downloads, active_clips, clip_buffers, offline_confirmations,
                     last_known_status, temp_dirs, dir_segments, returned, status_updated,
                     effects, gui_pc, gui_call>>

\* A step of the recording thread of session g.
ThreadStep(g) == op' = [name |-> "_clip_recording_loop", streamer |-> TheChannel, arg |-> g]

\* subprocess.Popen returns a running process or raises
PopenResults == {"ok", "raise"}

\* lines 319-334: stream_proc = Popen(stream_cmd); buffer_info['stream_process'] = stream_proc
thread_spawn_stream(g, popen) ==
    /\ threads[g].pc = "start"
    /\ IF popen = "ok"
       THEN /\ threads' = [threads EXCEPT ![g].stream_proc = "running",
                                          ![g].pc = "spawned_stream"]
            /\ buffers' = [buffers EXCEPT ![g].stream_process = "handle"]
       ELSE /\ threads' = [threads EXCEPT ![g].pc = "finally"]
            /\ UNCHANGED buffers
    /\ ThreadStep(g)
    /\ UNCHANGED <<threadUnchanged, join_elapsed>>

\* lines 336-352: segmenter_proc = Popen(ffmpeg_cmd); buffer_info['segmenter_process'] = ...
thread_spawn_segmenter(g, popen) ==
    /\ threads[g].pc = "spawned_stream"
    /\ IF popen = "ok"
       THEN /\ threads' = [threads EXCEPT ![g].segmenter_proc = "running",
                                          ![g].pc = "loop"]
            /\ buffers' = [buffers EXCEPT ![g].segmenter_process = "handle"]
       ELSE /\ threads' = [threads EXCEPT ![g].pc = "finally"]
            /\ UNCHANGED buffers
    /\ ThreadStep(g)
    /\ UNCHANGED <<threadUnchanged, join_elapsed>>

\* lines 357-361: the loop ends when the flag is set or a process has exited
LoopEnds(g) ==
    \/ buffers[g].stop_flag
    \/ threads[g].segmenter_proc = "exited"
    \/ threads[g].stream_proc = "exited"

thread_loop_exit(g) ==
    /\ threads[g].pc = "loop"
    /\ LoopEnds(g)
    /\ threads' = [threads EXCEPT ![g].pc = "finally"]
    /\ ThreadStep(g)
    /\ UNCHANGED <<threadUnchanged, buffers, join_elapsed>>

\* The caller of stop_clipping is in thread.join() on the thread of session g.
Joining(g) ==
    /\ gui_pc = "join"
    /\ TheChannel \in DOMAIN active_clips
    /\ active_clips[TheChannel] = g

thread_terminate_skipped(g, handle, wait_pc, skip_pc) ==
    threads' = [threads EXCEPT ![g].pc = skip_pc]
\* lines 375-376 and 382-383: if proc and proc.poll() is None: proc.terminate()
thread_terminate(g, handle, wait_pc, skip_pc) ==
    IF threads[g][handle] = "running"
    THEN threads' = [threads EXCEPT ![g].pc = wait_pc, ![g].wait_in_join = Joining(g)]
    ELSE threads' = [threads EXCEPT ![g].pc = skip_pc]

thread_finally_stream(g) ==
    /\ threads[g].pc = "finally"
    /\ thread_terminate(g, "stream_proc", "wait_stream", "finally_segmenter")
    /\ ThreadStep(g)
    /\ UNCHANGED <<threadUnchanged, buffers, join_elapsed>>

thread_finally_segmenter(g) ==
    /\ threads[g].pc = "finally_segmenter"
    /\ thread_terminate(g, "segmenter_proc", "wait_segmenter", "mark")
    /\ ThreadStep(g)
    /\ UNCHANGED <<threadUnchanged, buffers, join_elapsed>>

\* A wait(timeout=5) that began during the join cannot run out after the
\* join's 10 seconds have.
JoinExpiresFirst(g) ==
    /\ Joining(g)
    /\ threads[g].wait_in_join
    /\ join_elapsed + WAIT_TIMEOUT >= JOIN_TIMEOUT

\* lines 377-380 and 384-387: proc.wait(timeout=5) returns because the process
\* has exited, or raises TimeoutExpired and proc.kill() follows.
WaitResults == {"exited", "timeout"}

thread_wait(g, handle, from_pc, to_pc, result) ==
    /\ threads[g].pc = from_pc
    /\ result = "timeout" => ~JoinExpiresFirst(g)
    /\ threads' = [threads EXCEPT ![g][handle] = "exited", ![g].pc = to_pc,
                                  ![g].wait_in_join = FALSE]
    /\ join_elapsed' = IF result = "timeout" /\ Joining(g) /\ threads[g].wait_in_join
                       THEN join_elapsed + WAIT_TIMEOUT
                       ELSE join_elapsed
    /\ ThreadStep(g)
    /\ UNCHANGED <<threadUnchanged, buffers>>

\* line 389: buffer_info['is_running'] = False, and the thread ends
thread_mark(g) ==
    /\ threads[g].pc = "mark"
    /\ threads' = [threads EXCEPT ![g].pc = "ended"]
    /\ buffers' = [buffers EXCEPT ![g].is_running = FALSE]
    /\ ThreadStep(g)
    /\ UNCHANGED <<threadUnchanged, join_elapsed>>

\* A process ends by itself: the stream ends, the pipe closes.
process_exits(g, handle) ==
    /\ threads[g][handle] = "running"
    /\ threads' = [threads EXCEPT ![g][handle] = "exited"]
    /\ ThreadStep(g)
    /\ UNCHANGED <<threadUnchanged, buffers, join_elapsed>>

\* lines 76-78 at the end of stop_all_downloads(force)
EndCall(call) ==
    /\ IF call.name = "stop_all_downloads" /\ call.arg
       THEN /\ offline_confirmations' = Cleared(offline_confirmations)
            /\ last_known_status' = Cleared(last_known_status)
       ELSE UNCHANGED <<offline_confirmations, last_known_status>>
    /\ op' = call
    /\ status_updated' = << >>
    /\ returned' = Absent

StopCallers == {[name |-> "stop_clipping", streamer |-> TheChannel, arg |-> Absent],
                [name |-> "stop_all_downloads", streamer |-> Absent, arg |-> TRUE],
                [name |-> "stop_all_downloads", streamer |-> Absent, arg |-> FALSE]}

\* stop_clipping up to line 394 (buffer_info['stop_flag'].set()), called by the
\* user or by the loop of stop_all_downloads over the keys of active_clips.
stop_clipping_begin(call) ==
    /\ gui_pc = "idle"
    /\ active_downloads' = IF call.name = "stop_all_downloads"
                           THEN EmptyDict ELSE active_downloads
    /\ IF /\ TheChannel \in DOMAIN clip_buffers
          /\ call.name = "stop_all_downloads" => TheChannel \in DOMAIN active_clips
       THEN /\ buffers' = [buffers EXCEPT ![clip_buffers[TheChannel]].stop_flag = TRUE]
            /\ gui_pc' = "stop_stream"
            /\ gui_call' = call
            /\ effects' = << >>
            /\ op' = call
            /\ status_updated' = << >>
            /\ returned' = Absent
            /\ UNCHANGED <<offline_confirmations, last_known_status>>
       ELSE /\ EndCall(call)
            /\ effects' = << >>
            /\ UNCHANGED <<buffers, gui_pc, gui_call>>
    /\ UNCHANGED <<active_clips, clip_buffers, temp_dirs, dir_segments, threads,
                   join_elapsed>>

\* lines 396-412: if buffer_info.get(key): if proc.poll() is None: terminate,
\* wait(timeout=5), kill on timeout
stop_clipping_terminate(key, handle, from_pc, to_pc) ==
    /\ gui_pc = from_pc
    /\ LET g == clip_buffers[TheChannel] IN
       IF buffers[g][key] # Absent /\ threads[g][handle] = "running"
       THEN /\ threads' = [threads EXCEPT ![g][handle] = "exited"]
            /\ \E calls \in TerminateCalls : effects' = effects \o calls
       ELSE UNCHANGED <<threads, effects>>
    /\ gui_pc' = to_pc
    /\ join_elapsed' = 0
    /\ UNCHANGED <<active_downloads, active_clips, clip_buffers, offline_confirmations,
                   last_known_status, temp_dirs, dir_segments, returned, status_updated,
                   op, gui_call, buffers>>

\* lines 414-426: thread.join(timeout=10) has returned; del active_clips[c],
\* shutil.rmtree(temp_dir), del clip_buffers[c]
stop_clipping_finish ==
    LET g == clip_buffers[TheChannel] IN
    /\ effects' = effects \o <<"Thread.join">>
                  \o (IF buffers[g].temp_dir \in temp_dirs THEN <<"rmtree">> ELSE << >>)
    /\ active_clips' = DictDel(active_clips, TheChannel)
    /\ temp_dirs' = temp_dirs \ {buffers[g].temp_dir}
    /\ dir_segments' = DictDel(dir_segments, buffers[g].temp_dir)
    /\ clip_buffers' = DictDel(clip_buffers, TheChannel)
    /\ gui_pc' = "idle"
    /\ gui_call' = NoOp
    /\ EndCall(gui_call)
    /\ UNCHANGED <<active_downloads, buffers, threads, join_elapsed>>

\* the joined thread has ended
stop_clipping_joined ==
    /\ gui_pc = "join"
    /\ threads[clip_buffers[TheChannel]].pc = "ended"
    /\ stop_clipping_finish

\* the 10 seconds have passed and the thread is still in a wait(timeout=5)
stop_clipping_join_timeout ==
    /\ gui_pc = "join"
    /\ threads[clip_buffers[TheChannel]].pc \in {"wait_stream", "wait_segmenter"}
    /\ JoinExpiresFirst(clip_buffers[TheChannel])
    /\ stop_clipping_finish

\* check_streamer_status runs between the calls of the other handlers
check_streamer_status_session(probe) ==
    /\ gui_pc = "idle"
    /\ check_streamer_status(TheChannel, probe)
    /\ UNCHANGED sessVars

sessFrame == <<urlVars, trimVars, jobVars, clipVars, concVars>>

SessionNext ==
    \/ start_clipping_session /\ UNCHANGED sessFrame
    \/ \E g \in Sessions, r \in PopenResults : thread_spawn_stream(g, r) /\ UNCHANGED sessFrame
    \/ \E g \in Sessions, r \in PopenResults : thread_spawn_segmenter(g, r) /\ UNCHANGED sessFrame
    \/ \E g \in Sessions : thread_loop_exit(g) /\ UNCHANGED sessFrame
    \/ \E g \in Sessions : thread_finally_stream(g) /\ UNCHANGED sessFrame
    \/ \E g \in Sessions : thread_finally_segmenter(g) /\ UNCHANGED sessFrame
    \/ \E g \in Sessions, r \in WaitResults :
         thread_wait(g, "stream_proc", "wait_stream", "finally_segmenter", r) /\ UNCHANGED sessFrame
    \/ \E g \in Sessions, r \in WaitResults :
         thread_wait(g, "segmenter_proc", "wait_segmenter", "mark", r) /\ UNCHANGED sessFrame
    \/ \E g \in Sessions : thread_mark(g) /\ UNCHANGED sessFrame
    \/ \E g \in Sessions, h \in {"stream_proc", "segmenter_proc"} :
         process_exits(g, h) /\ UNCHANGED sessFrame
    \/ \E call \in StopCallers : stop_clipping_begin(call) /\ UNCHANGED sessFrame
    \/ stop_clipping_terminate("stream_process", "stream_proc", "stop_stream", "stop_segmenter")
         /\ UNCHANGED sessFrame
    \/ stop_clipping_terminate("segmenter_process", "segmenter_proc", "stop_segmenter", "join")
         /\ UNCHANGED sessFrame
    \/ stop_clipping_joined /\ UNCHANGED sessFrame
    \/ stop_clipping_join_timeout /\ UNCHANGED sessFrame
    \/ \E probe \in ProbeResults : check_streamer_status_session(probe) /\ UNCHANGED sessFrame

\* No handler is running concurrently with another.
ConcIdle ==
    /\ call_pc = << >>
    /\ call_local = << >>
    /\ pause_mutex = "free"
    /\ spawned = << >>

(***************************************************************************)
(* FastM3U8DownloadThread: pause, resume, stop and abort against the       *)
(* workers' _check_pause, statement by statement                           *)
(***************************************************************************)

\* The pool's workers, the GUI thread, and how many calls the GUI makes.
PauseWorkers == {"w1", "w2"}
Gui == "gui"
MaxCalls == 3
ControlCalls == {"pause", "resume", "stop", "abort"}

\* The job's fields that the pause protocol does not touch.
jobRest == <<temp_dir, total_segments, downloaded_segments, completed_segments,
             failed_segments, retry_count, task, concat_list, concat_result,
             output_path, download_finished, temp_dir_at_emit>>

pauseFrame == <<smVars, urlVars, trimVars, jobRest, clipVars, sessVars, spawned>>

\* run() has submitted its futures: each worker is about to call download_segment.
PauseInit ==
    /\ call_pc = [t \in PauseWorkers \cup {Gui} |-> IF t = Gui THEN "idle" ELSE "out"]
    /\ call_local = [call |-> "none", made |-> 0]
    /\ pause_mutex = "free"
    /\ spawned = << >>

\* The first statement of each of the four calls.
FirstStep(c) ==
    CASE c = "pause" -> "pause_lock"
      [] c = "resume" -> "resume_lock"
      [] c = "stop" -> "stop_flag"
      [] c = "abort" -> "abort_flag"

\* The GUI thread calls pause(), resume(), stop() or abort().
gui_call_begin(c) ==
    /\ call_pc[Gui] = "idle"
    /\ call_local.made < MaxCalls
    /\ call_local' = [call |-> c, made |-> call_local.made + 1]
    /\ call_pc' = [call_pc EXCEPT ![Gui] = FirstStep(c)]
    /\ UNCHANGED <<should_stop, should_abort, is_paused, pause_mutex>>

\* stop(): self._should_stop = True; _force_stop_workers() empties a queue that
\* nothing fills; then resume().
stop_set_flag ==
    /\ call_pc[Gui] = "stop_flag"
    /\ should_stop' = TRUE
    /\ call_pc' = [call_pc EXCEPT ![Gui] = "resume_lock"]
    /\ UNCHANGED <<should_abort, is_paused, pause_mutex, call_local>>

\* abort(): self._should_abort = True
abort_set_abort ==
    /\ call_pc[Gui] = "abort_flag"
    /\ should_abort' = TRUE
    /\ call_pc' = [call_pc EXCEPT ![Gui] = "abort_stop_flag"]
    /\ UNCHANGED <<should_stop, is_paused, pause_mutex, call_local>>

\* abort(): self._should_stop = True; then _force_stop_workers() and resume().
abort_set_stop ==
    /\ call_pc[Gui] = "abort_stop_flag"
    /\ should_stop' = TRUE
    /\ call_pc' = [call_pc EXCEPT ![Gui] = "resume_lock"]
    /\ UNCHANGED <<should_abort, is_paused, pause_mutex, call_local>>

\* pause() / resume(): self.pause_mutex.lock()
gui_lock ==
    /\ call_pc[Gui] \in {"pause_lock", "resume_lock"}
    /\ pause_mutex = "free"
    /\ pause_mutex' = Gui
    /\ call_pc' = [call_pc EXCEPT
                     ![Gui] = IF @ = "pause_lock" THEN "pause_body" ELSE "resume_body"]
    /\ UNCHANGED <<should_stop, should_abort, is_paused, call_local>>

\* pause(): self._is_paused = True; unlock
pause_body ==
    /\ call_pc[Gui] = "pause_body"
    /\ is_paused' = TRUE
    /\ pause_mutex' = "free"
    /\ call_pc' = [call_pc EXCEPT ![Gui] = "idle"]
    /\ UNCHANGED <<should_stop, should_abort, call_local>>

\* pause_condition.wakeAll(): every thread in wait() becomes runnable.
WakeAll(pcs) == [t \in DOMAIN pcs |-> IF pcs[t] = "waiting" THEN "woken" ELSE pcs[t]]

\* resume(): self._is_paused = False; wakeAll(); unlock
resume_body ==
    /\ call_pc[Gui] = "resume_body"
    /\ is_paused' = FALSE
    /\ pause_mutex' = "free"
    /\ call_pc' = [WakeAll(call_pc) EXCEPT ![Gui] = "idle"]
    /\ UNCHANGED <<should_stop, should_abort, call_local>>

\* _check_pause(): self.pause_mutex.lock(), and wait() taking the mutex again
\* once woken.
check_pause_lock(w) ==
    /\ call_pc[w] \in {"out", "woken"}
    /\ pause_mutex = "free"
    /\ pause_mutex' = w
    /\ call_pc' = [call_pc EXCEPT ![w] = "test"]
    /\ UNCHANGED <<should_stop, should_abort, is_paused, call_local>>

ShouldWait_pausedOnly(paused, stopped, aborted) == paused
\* _check_pause(): while self._is_paused and not self._should_stop and not
\* self._should_abort
ShouldWait(paused, stopped, aborted) == paused /\ ~stopped /\ ~aborted

\* _check_pause(): the while-condition; wait() releases the mutex and blocks in
\* one step, otherwise the mutex is unlocked and _check_pause returns.
check_pause_test(w) ==
    /\ call_pc[w] = "test"
    /\ pause_mutex' = "free"
    /\ call_pc' = [call_pc EXCEPT
                     ![w] = IF ShouldWait(is_paused, should_stop, should_abort)
                            THEN "waiting" ELSE "checked"]
    /\ UNCHANGED <<should_stop, should_abort, is_paused, call_local>>

\* download_segment lines 794 and 805: with stop or abort set the call returns,
\* otherwise it goes on to the request or the next chunk, and to the next
\* _check_pause.
segment_flag_check(w) ==
    /\ call_pc[w] = "checked"
    /\ call_pc' = [call_pc EXCEPT
                     ![w] = IF should_stop \/ should_abort THEN "returned" ELSE "out"]
    /\ UNCHANGED <<should_stop, should_abort, is_paused, pause_mutex, call_local>>

GuiStep ==
    stop_set_flag \/ abort_set_abort \/ abort_set_stop \/ gui_lock \/ pause_body
    \/ resume_body

WorkerStep(w) == check_pause_lock(w) \/ check_pause_test(w) \/ segment_flag_check(w)

PauseNext ==
    \/ \E c \in ControlCalls : gui_call_begin(c) /\ UNCHANGED pauseFrame
    \/ stop_set_flag /\ UNCHANGED pauseFrame
    \/ abort_set_abort /\ UNCHANGED pauseFrame
    \/ abort_set_stop /\ UNCHANGED pauseFrame
    \/ gui_lock /\ UNCHANGED pauseFrame
    \/ pause_body /\ UNCHANGED pauseFrame
    \/ resume_body /\ UNCHANGED pauseFrame
    \/ \E w \in PauseWorkers : check_pause_lock(w) /\ UNCHANGED pauseFrame
    \/ \E w \in PauseWorkers : check_pause_test(w) /\ UNCHANGED pauseFrame
    \/ \E w \in PauseWorkers : segment_flag_check(w) /\ UNCHANGED pauseFrame

\* Every thread that can take a step eventually takes one; the GUI thread need
\* not begin another call.
PauseFairness ==
    /\ WF_vars(GuiStep /\ UNCHANGED pauseFrame)
    /\ \A w \in PauseWorkers : WF_vars(WorkerStep(w) /\ UNCHANGED pauseFrame)

(***************************************************************************)
(* Stopping a supervised process: stop_download, stop_clipping, the        *)
(* finally clause of _clip_recording_loop, FrameExtractionThread and       *)
(* VideoTrimThread                                                         *)
(***************************************************************************)

KillSites == {"stop_download", "stop_clipping", "_clip_recording_loop",
              "FrameExtractionThread", "VideoTrimThread"}

\* How many processes the routine stops, one after the other.
Supervised(site) ==
    IF site \in {"stop_clipping", "_clip_recording_loop"} THEN 2 ELSE 1

\* The routine's wait: process.wait(timeout=5) in stream_manager.py,
\* self.process.wait() in video_tools.py.
WaitBound(site) ==
    IF site \in {"FrameExtractionThread", "VideoTrimThread"} THEN None
    ELSE Some(WAIT_TIMEOUT)

\* stop_clipping and the loop's finally clause skip a process whose poll() is
\* not None.
PollsFirst(site) == site \in {"stop_clipping", "_clip_recording_loop"}

\* A routine supervising its processes, each running or already gone, each
\* honouring terminate() or ignoring it.
KillInit ==
    /\ \E site \in KillSites :
          /\ call_local = [site |-> site, proc |-> 1, waited |-> 0]
          /\ spawned \in [1..Supervised(site) ->
                            [state : {"running", "exited"}, honours : BOOLEAN]]
    /\ call_pc = "supervising"
    /\ pause_mutex = "free"

killFrame == <<smVars, urlVars, trimVars, jobVars, clipVars, sessVars, pause_mutex>>

\* The routine is done with process call_local.proc.
Advance ==
    IF call_local.proc < Supervised(call_local.site)
    THEN /\ call_local' = [call_local EXCEPT !.proc = @ + 1, !.waited = 0]
         /\ call_pc' = "terminate"
    ELSE /\ call_local' = [call_local EXCEPT !.waited = 0]
         /\ call_pc' = "finished"

\* The stop is requested: stop_download / stop_clipping is called, the loop
\* reaches its finally clause, stop() of the thread sets _should_stop.
stop_requested ==
    /\ call_pc = "supervising"
    /\ call_pc' = "terminate"
    /\ UNCHANGED <<call_local, spawned>>

\* process.terminate(): a process that honours it begins to exit.
send_terminate ==
    /\ call_pc = "terminate"
    /\ LET p == spawned[call_local.proc] IN
       IF PollsFirst(call_local.site) /\ p.state = "exited"
       THEN Advance /\ UNCHANGED spawned
       ELSE /\ spawned' = [spawned EXCEPT ![call_local.proc].state =
                             IF @ = "running" /\ p.honours THEN "terminating" ELSE @]
            /\ call_pc' = "wait"
            /\ call_local' = [call_local EXCEPT !.waited = 0]

\* A terminating process exits.
process_ends(p) ==
    /\ call_pc \in {"wait", "kill"}
    /\ p \in DOMAIN spawned
    /\ spawned[p].state = "terminating"
    /\ spawned' = [spawned EXCEPT ![p].state = "exited"]
    /\ UNCHANGED <<call_pc, call_local>>

\* A second of process.wait(timeout=5) passes.
wait_tick ==
    /\ call_pc = "wait"
    /\ spawned[call_local.proc].state # "exited"
    /\ WaitBound(call_local.site) # None
    /\ call_local.waited < WaitBound(call_local.site)[1]
    /\ call_local' = [call_local EXCEPT !.waited = @ + 1]
    /\ UNCHANGED <<call_pc, spawned>>

\* wait() returns: the process has exited.
wait_returns ==
    /\ call_pc = "wait"
    /\ spawned[call_local.proc].state = "exited"
    /\ Advance
    /\ UNCHANGED spawned

\* wait(timeout=5) raises TimeoutExpired.
wait_expires ==
    /\ call_pc = "wait"
    /\ spawned[call_local.proc].state # "exited"
    /\ WaitBound(call_local.site) # None
    /\ call_local.waited = WaitBound(call_local.site)[1]
    /\ call_pc' = "kill"
    /\ UNCHANGED <<call_local, spawned>>

\* except subprocess.TimeoutExpired: process.kill()
send_kill ==
    /\ call_pc = "kill"
    /\ spawned' = [spawned EXCEPT ![call_local.proc].state = "exited"]
    /\ Advance

KillNext ==
    \/ stop_requested /\ UNCHANGED killFrame
    \/ send_terminate /\ UNCHANGED killFrame
    \/ \E p \in 1..2 : process_ends(p) /\ UNCHANGED killFrame
    \/ wait_tick /\ UNCHANGED killFrame
    \/ wait_returns /\ UNCHANGED killFrame
    \/ wait_expires /\ UNCHANGED killFrame
    \/ send_kill /\ UNCHANGED killFrame

(***************************************************************************)
(* _handle_status_update run by two probe threads of one channel,          *)
(* statement by statement                                                  *)
(***************************************************************************)

\* check_streamer_status starts one thread per call; the timer of main.py calls
\* it every 5 seconds and a probe may take 10, so two may finish together.
Probes == {"p1", "p2"}

\* The handler's local variables before it has run.
NoLocals == [is_live |-> Absent, last_status |-> Absent, n |-> Absent]

\* The counter and the last known status of the channel, if it has any, and
\* whether it has a session.  A counter above 0 belongs to a channel last seen
\* live.
ProbeInit ==
    /\ \E fresh \in BOOLEAN, n \in 0..(OFFLINE_CONFIRMATIONS_NEEDED - 1), last \in BOOLEAN :
          /\ n > 0 => last
          /\ fresh => n = 0 /\ ~last
          /\ offline_confirmations =
               IF fresh THEN EmptyDict ELSE DictSet(EmptyDict, TheChannel, n)
          /\ last_known_status =
               IF fresh THEN EmptyDict ELSE DictSet(EmptyDict, TheChannel, last)
    /\ \E active \in BOOLEAN :
          active_clips = IF active THEN DictSet(EmptyDict, TheChannel, 1) ELSE EmptyDict
    /\ active_downloads = EmptyDict
    /\ clip_buffers = EmptyDict
    /\ temp_dirs = {}
    /\ dir_segments = EmptyDict
    /\ returned = Absent
    /\ status_updated = << >>
    /\ effects = << >>
    /\ op = NoOp
    /\ call_pc = [t \in Probes |-> "probing"]
    /\ call_local = [start |-> [count |-> DictGet(offline_confirmations, TheChannel, 0),
                                last |-> DictGet(last_known_status, TheChannel, FALSE),
                                emitted |-> << >>],
                     of |-> [t \in Probes |-> NoLocals]]
    /\ pause_mutex = "free"
    /\ spawned = << >>

probeUnchanged == <<active_downloads, active_clips, clip_buffers, temp_dirs, dir_segments,
                    returned, effects, op, pause_mutex, spawned>>

probeFrame == <<urlVars, trimVars, jobVars, clipVars, sessVars>>

Goto(t, to_pc) == call_pc' = [call_pc EXCEPT ![t] = to_pc]

\* The probe of thread t ends with a result and _handle_status_update begins:
\* last_status = self.last_known_status.get(streamer_name, False)
probe_result(t, is_live) ==
    /\ call_pc[t] = "probing"
    /\ call_local' = [call_local EXCEPT
                        !.of[t] = [is_live |-> is_live,
                                   last_status |-> DictGet(last_known_status, TheChannel, FALSE),
                                   n |-> Absent]]
    /\ Goto(t, IF is_live THEN "live_reset"
               ELSE IF NeedsConfirmation(DictGet(last_known_status, TheChannel, FALSE),
                                         HasActiveSession(TheChannel))
                    THEN "count_read" ELSE "idle_last")
    /\ UNCHANGED <<offline_confirmations, last_known_status, status_updated, probeUnchanged>>

\* lines 86-88: one statement at a time
live_step(t) ==
    /\ call_pc[t] \in {"live_reset", "live_last", "live_emit"}
    /\ CASE call_pc[t] = "live_reset" ->
              /\ offline_confirmations' =
                   DictSet(offline_confirmations, TheChannel,
                           ConfirmationsAfterLive(DictGet(offline_confirmations, TheChannel, 0)))
              /\ Goto(t, "live_last")
              /\ UNCHANGED <<last_known_status, status_updated>>
         [] call_pc[t] = "live_last" ->
              /\ last_known_status' = DictSet(last_known_status, TheChannel, TRUE)
              /\ Goto(t, "live_emit")
              /\ UNCHANGED <<offline_confirmations, status_updated>>
         [] call_pc[t] = "live_emit" ->
              /\ status_updated' = Append(status_updated, <<TheChannel, TRUE>>)
              /\ Goto(t, "handled")
              /\ UNCHANGED <<offline_confirmations, last_known_status>>
    /\ UNCHANGED <<call_local, probeUnchanged>>

\* line 94, right-hand side: self.offline_confirmations.get(streamer_name, 0) + 1
count_read(t) ==
    /\ call_pc[t] = "count_read"
    /\ call_local' = [call_local EXCEPT
                        !.of[t].n = DictGet(offline_confirmations, TheChannel, 0) + 1]
    /\ Goto(t, "count_write")
    /\ UNCHANGED <<offline_confirmations, last_known_status, status_updated, probeUnchanged>>

\* line 94, the assignment
count_write(t) ==
    /\ call_pc[t] = "count_write"
    /\ offline_confirmations' = DictSet(offline_confirmations, TheChannel, call_local.of[t].n)
    /\ Goto(t, "count_test")
    /\ UNCHANGED <<call_local, last_known_status, status_updated, probeUnchanged>>

\* line 96: if self.offline_confirmations[streamer_name] >= 3, reading the
\* dictionary again
count_test(t) ==
    /\ call_pc[t] = "count_test"
    /\ Goto(t, IF OfflineConfirmed(offline_confirmations[TheChannel])
               THEN "confirmed_last" ELSE "handled")
    /\ UNCHANGED <<call_local, offline_confirmations, last_known_status, status_updated,
                   probeUnchanged>>

\* lines 99-101 (confirmed offline) and lines 108-110 (offline at once): the
\* status, the signal, the counter
offline_step(t) ==
    /\ call_pc[t] \in {"confirmed_last", "confirmed_emit", "confirmed_reset",
                       "idle_last", "idle_emit", "idle_reset"}
    /\ CASE call_pc[t] \in {"confirmed_last", "idle_last"} ->
              /\ last_known_status' = DictSet(last_known_status, TheChannel, FALSE)
              /\ Goto(t, IF call_pc[t] = "idle_last" THEN "idle_emit" ELSE "confirmed_emit")
              /\ UNCHANGED <<offline_confirmations, status_updated>>
         [] call_pc[t] \in {"confirmed_emit", "idle_emit"} ->
              /\ status_updated' = Append(status_updated, <<TheChannel, FALSE>>)
              /\ Goto(t, IF call_pc[t] = "idle_emit" THEN "idle_reset" ELSE "confirmed_reset")
              /\ UNCHANGED <<offline_confirmations, last_known_status>>
         [] call_pc[t] \in {"confirmed_reset", "idle_reset"} ->
              /\ offline_confirmations' = DictSet(offline_confirmations, TheChannel, 0)
              /\ Goto(t, "handled")
              /\ UNCHANGED <<last_known_status, status_updated>>
    /\ UNCHANGED <<call_local, probeUnchanged>>

ProbeNext ==
    \/ \E t \in Probes, is_live \in BOOLEAN : probe_result(t, is_live) /\ UNCHANGED probeFrame
    \/ \E t \in Probes : live_step(t) /\ UNCHANGED probeFrame
    \/ \E t \in Probes : count_read(t) /\ UNCHANGED probeFrame
    \/ \E t \in Probes : count_write(t) /\ UNCHANGED probeFrame
    \/ \E t \in Probes : count_test(t) /\ UNCHANGED probeFrame
    \/ \E t \in Probes : offline_step(t) /\ UNCHANGED probeFrame

(***************************************************************************)
(* start_download, stop_download and stop_clipping called twice at once    *)
(* for one channel, statement by statement                                 *)
(***************************************************************************)

Callers == {"c1", "c2"}
LifecycleOps == {"start_download", "stop_download", "stop_clipping"}

\* The processes of a session that exists when the two calls begin: the capture
\* process of a download, the capture source and the segmenter of a clip buffer.
ProcessesOf(operation) == IF operation = "stop_clipping" THEN <<"running", "running">>
                          ELSE <<"running">>

\* Two calls of one operation for TheChannel, which has a session or has none.
LifecycleInit ==
    /\ \E operation \in LifecycleOps, session \in BOOLEAN :
          /\ call_local = [operation |-> operation,
                           process |-> [c \in Callers |-> Absent]]
          /\ active_downloads =
               IF session /\ operation # "stop_clipping"
               THEN DictSet(EmptyDict, TheChannel, [process |-> 1]) ELSE EmptyDict
          /\ clip_buffers =
               IF session /\ operation = "stop_clipping"
               THEN DictSet(EmptyDict, TheChannel,
                            [stream_process |-> 1, segmenter_process |-> 2,
                             temp_dir |-> mkdtemp(TheChannel)])
               ELSE EmptyDict
          /\ active_clips =
               IF session /\ operation = "stop_clipping"
               THEN DictSet(EmptyDict, TheChannel, "thread") ELSE EmptyDict
          /\ temp_dirs = {clip_buffers[c].temp_dir : c \in DOMAIN clip_buffers}
          /\ spawned = IF session THEN ProcessesOf(operation) ELSE << >>
    /\ call_pc = [c \in Callers |-> "called"]
    /\ offline_confirmations = EmptyDict
    /\ last_known_status = EmptyDict
    /\ dir_segments = EmptyDict
    /\ returned = Absent
    /\ status_updated = << >>
    /\ effects = << >>
    /\ op = NoOp
    /\ pause_mutex = "free"

lifeUnchanged == <<offline_confirmations, last_known_status, dir_segments, returned,
                   status_updated, effects, op, pause_mutex>>

lifeFrame == <<urlVars, trimVars, jobVars, clipVars, sessVars>>

\* del d[k] and d[k] raise KeyError when the key is gone.
KeyError(d) == TheChannel \notin DOMAIN d

\* start_download line 117: if streamer_name in self.active_downloads: return
start_download_check(c) ==
    /\ call_local.operation = "start_download"
    /\ call_pc[c] = "called"
    /\ Goto(c, IF TheChannel \in DOMAIN active_downloads THEN "returned" ELSE "popen")
    /\ UNCHANGED <<call_local, active_downloads, active_clips, clip_buffers, temp_dirs,
                   spawned, lifeUnchanged>>

\* lines 141-156: process = subprocess.Popen(cmd, ...)
start_download_popen(c) ==
    /\ call_pc[c] = "popen"
    /\ spawned' = Append(spawned, "running")
    /\ call_local' = [call_local EXCEPT !.process[c] = Len(spawned) + 1]
    /\ Goto(c, "store")
    /\ UNCHANGED <<active_downloads, active_clips, clip_buffers, temp_dirs, lifeUnchanged>>

\* lines 158-170: self.active_downloads[streamer_name] = {...}; the monitor
\* thread is started
start_download_store(c) ==
    /\ call_pc[c] = "store"
    /\ active_downloads' =
         DictSet(active_downloads, TheChannel, [process |-> call_local.process[c]])
    /\ Goto(c, "returned")
    /\ UNCHANGED <<call_local, active_clips, clip_buffers, temp_dirs, spawned, lifeUnchanged>>

\* stop_download lines 243-245: the membership test, then the two subscripts
stop_download_check(c) ==
    /\ call_local.operation = "stop_download"
    /\ call_pc[c] = "called"
    /\ Goto(c, IF TheChannel \in DOMAIN active_downloads THEN "get" ELSE "returned")
    /\ UNCHANGED <<call_local, active_downloads, active_clips, clip_buffers, temp_dirs,
                   spawned, lifeUnchanged>>

stop_download_get(c) ==
    /\ call_pc[c] = "get"
    /\ call_local.operation = "stop_download"
    /\ IF KeyError(active_downloads)
       THEN Goto(c, "raised") /\ UNCHANGED call_local
       ELSE /\ call_local' = [call_local EXCEPT
                                !.process[c] = active_downloads[TheChannel].process]
            /\ Goto(c, "terminate")
    /\ UNCHANGED <<active_downloads, active_clips, clip_buffers, temp_dirs, spawned,
                   lifeUnchanged>>

\* lines 247-251: terminate(), wait(timeout=5), kill() on TimeoutExpired
stop_download_terminate(c) ==
    /\ call_pc[c] = "terminate"
    /\ call_local.operation = "stop_download"
    /\ spawned' = [spawned EXCEPT ![call_local.process[c]] = "exited"]
    /\ Goto(c, "del")
    /\ UNCHANGED <<call_local, active_downloads, active_clips, clip_buffers, temp_dirs,
                   lifeUnchanged>>

\* line 253: del self.active_downloads[streamer_name]
stop_download_del(c) ==
    /\ call_pc[c] = "del"
    /\ call_local.operation = "stop_download"
    /\ IF KeyError(active_downloads)
       THEN Goto(c, "raised") /\ UNCHANGED active_downloads
       ELSE /\ active_downloads' = DictDel(active_downloads, TheChannel)
            /\ Goto(c, "returned")
    /\ UNCHANGED <<call_local, active_clips, clip_buffers, temp_dirs, spawned, lifeUnchanged>>

\* stop_clipping lines 392-394: the membership test, buffer_info =
\* self.clip_buffers[streamer_name], stop_flag.set()
stop_clipping_check(c) ==
    /\ call_local.operation = "stop_clipping"
    /\ call_pc[c] = "called"
    /\ Goto(c, IF TheChannel \in DOMAIN clip_buffers THEN "get" ELSE "returned")
    /\ UNCHANGED <<call_local, active_downloads, active_clips, clip_buffers, temp_dirs,
                   spawned, lifeUnchanged>>

stop_clipping_get(c) ==
    /\ call_pc[c] = "get"
    /\ call_local.operation = "stop_clipping"
    /\ IF KeyError(clip_buffers)
       THEN Goto(c, "raised") /\ UNCHANGED call_local
       ELSE /\ call_local' = [call_local EXCEPT !.process[c] = clip_buffers[TheChannel]]
            /\ Goto(c, "terminate")
    /\ UNCHANGED <<active_downloads, active_clips, clip_buffers, temp_dirs, spawned,
                   lifeUnchanged>>

\* lines 396-412: both processes are terminated, and killed if they do not end
stop_clipping_procs(c) ==
    /\ call_pc[c] = "terminate"
    /\ call_local.operation = "stop_clipping"
    /\ spawned' = [i \in DOMAIN spawned |->
                     IF i \in {call_local.process[c].stream_process,
                               call_local.process[c].segmenter_process}
                     THEN "exited" ELSE spawned[i]]
    /\ Goto(c, "active_check")
    /\ UNCHANGED <<call_local, active_downloads, active_clips, clip_buffers, temp_dirs,
                   lifeUnchanged>>

\* lines 414-415: if streamer_name in self.active_clips: thread = ...
stop_clipping_active(c) ==
    /\ call_pc[c] = "active_check"
    /\ Goto(c, IF TheChannel \in DOMAIN active_clips THEN "join" ELSE "rmtree")
    /\ UNCHANGED <<call_local, active_downloads, active_clips, clip_buffers, temp_dirs,
                   spawned, lifeUnchanged>>

\* lines 416-417: thread.join(timeout=10); del self.active_clips[streamer_name]
stop_clipping_del_thread(c) ==
    /\ call_pc[c] = "join"
    /\ IF KeyError(active_clips)
       THEN Goto(c, "raised") /\ UNCHANGED active_clips
       ELSE /\ active_clips' = DictDel(active_clips, TheChannel)
            /\ Goto(c, "rmtree")
    /\ UNCHANGED <<call_local, active_downloads, clip_buffers, temp_dirs, spawned,
                   lifeUnchanged>>

\* lines 419-424: shutil.rmtree(temp_dir), its errors swallowed
stop_clipping_rmtree(c) ==
    /\ call_pc[c] = "rmtree"
    /\ temp_dirs' = temp_dirs \ {call_local.process[c].temp_dir}
    /\ Goto(c, "del")
    /\ UNCHANGED <<call_local, active_downloads, active_clips, clip_buffers, spawned,
                   lifeUnchanged>>

\* line 426: del self.clip_buffers[streamer_name]
stop_clipping_del(c) ==
    /\ call_pc[c] = "del"
    /\ call_local.operation = "stop_clipping"
    /\ IF KeyError(clip_buffers)
       THEN Goto(c, "raised") /\ UNCHANGED clip_buffers
       ELSE /\ clip_buffers' = DictDel(clip_buffers, TheChannel)
            /\ Goto(c, "returned")
    /\ UNCHANGED <<call_local, active_downloads, active_clips, temp_dirs, spawned,
                   lifeUnchanged>>

LifecycleNext ==
    \/ \E c \in Callers : start_download_check(c) /\ UNCHANGED lifeFrame
    \/ \E c \in Callers : start_download_popen(c) /\ UNCHANGED lifeFrame
    \/ \E c \in Callers : start_download_store(c) /\ UNCHANGED lifeFrame
    \/ \E c \in Callers : stop_download_check(c) /\ UNCHANGED lifeFrame
    \/ \E c \in Callers : stop_download_get(c) /\ UNCHANGED lifeFrame
    \/ \E c \in Callers : stop_download_terminate(c) /\ UNCHANGED lifeFrame
    \/ \E c \in Callers : stop_download_del(c) /\ UNCHANGED lifeFrame
    \/ \E c \in Callers : stop_clipping_check(c) /\ UNCHANGED lifeFrame
    \/ \E c \in Callers : stop_clipping_get(c) /\ UNCHANGED lifeFrame
    \/ \E c \in Callers : stop_clipping_procs(c) /\ UNCHANGED lifeFrame
    \/ \E c \in Callers : stop_clipping_active(c) /\ UNCHANGED lifeFrame
    \/ \E c \in Callers : stop_clipping_del_thread(c) /\ UNCHANGED lifeFrame
    \/ \E c \in Callers : stop_clipping_rmtree(c) /\ UNCHANGED lifeFrame
    \/ \E c \in Callers : stop_clipping_del(c) /\ UNCHANGED lifeFrame

(***************************************************************************)
(* StreamerCard (src/gui/streamer_card.py): the download controls of the   *)
(* card of each channel, over StreamManager's sessions.  call_local holds  *)
(* the cards' fields.                                                      *)
(***************************************************************************)

\* __init__, lines 19-22
CardInit ==
    /\ call_local = [c \in Channels |->
                       [is_live |-> FALSE, is_downloading |-> FALSE,
                        download_filename |-> None]]
    /\ call_pc = << >>
    /\ pause_mutex = "free"
    /\ spawned = << >>

cardFrame == <<urlVars, trimVars, jobVars, clipVars, sessVars, call_pc, pause_mutex, spawned>>

\* One field of one card is assigned.
CardSet(cards, c, field, value) == [cards EXCEPT ![c][field] = value]

\* StreamerCard.start_download past its is_live guard, lines 276-292: the card
\* makes a name with its own call of generate_live_vod_name, then has the
\* manager start the download, which makes the name of the file (line 125).
card_start_download(cards, c) ==
    /\ \E output_format \in Formats, random_num \in RandomNumbers, now \in Times :
          /\ call_local' =
                CardSet(CardSet(cards, c, "is_downloading", TRUE), c, "download_filename",
                        generate_live_vod_name(c, output_format, now, random_num))
          /\ start_download(c, "best", output_format, get_streamer_vod_path(c))

\* StreamerCard.stop_download, lines 294-329: the message box names
\* download_filename; the manager stops the session; the name is forgotten.
card_stop_download(cards, c) ==
    /\ call_local' =
          CardSet(CardSet(cards, c, "is_downloading", FALSE), c, "download_filename", None)
    /\ stop_download(c)

\* toggle_download, lines 266-270, with start_download's guard of line 273
toggle_download(c) ==
    IF call_local[c].is_downloading
    THEN card_stop_download(call_local, c)
    ELSE IF call_local[c].is_live
         THEN card_start_download(call_local, c)
         ELSE UNCHANGED <<call_local, smVars>>

\* update_status, lines 223-240; auto is whether check_and_start_auto_actions
\* finds the auto download box checked, the settings loaded and no override.
update_status(c, is_live, auto) ==
    LET cards == CardSet(call_local, c, "is_live", is_live) IN
    IF is_live
    THEN IF auto /\ ~cards[c].is_downloading
         THEN card_start_download(cards, c)
         ELSE call_local' = cards /\ UNCHANGED smVars
    ELSE IF cards[c].is_downloading
         THEN card_stop_download(cards, c)
         ELSE call_local' = cards /\ UNCHANGED smVars

\* The capture process of a card's session ends on its own.
card_process_exits(c) ==
    /\ download_process_exits(c)
    /\ UNCHANGED call_local

CardNext ==
    \/ \E c \in Channels : toggle_download(c) /\ UNCHANGED cardFrame
    \/ \E c \in Channels, is_live \in BOOLEAN, auto \in BOOLEAN :
          update_status(c, is_live, auto) /\ UNCHANGED cardFrame
    \/ \E c \in Channels : card_process_exits(c) /\ UNCHANGED cardFrame

(***************************************************************************)
(* The specifications                                                      *)
(***************************************************************************)

Init == SMInit /\ UrlIdle /\ TrimIdle /\ JobIdle /\ ClipIdle /\ SessionIdle /\ ConcIdle

Next == SMNext

Spec == Init /\ [][Next]_vars

InitUrl == SMInit /\ UrlInit /\ TrimIdle /\ JobIdle /\ ClipIdle /\ SessionIdle /\ ConcIdle

SpecUrl == InitUrl /\ [][UrlNext]_vars

InitTrim == SMInit /\ UrlIdle /\ TrimInit /\ JobIdle /\ ClipIdle /\ SessionIdle /\ ConcIdle

SpecTrim == InitTrim /\ [][TrimNext]_vars

InitJob == SMInit /\ UrlIdle /\ JobInit /\ ClipIdle /\ SessionIdle /\ ConcIdle

SpecJob == InitJob /\ [][JobNext]_vars

\* A step of run() or of a pool worker: every step of JobNext but the calls of
\* the GUI thread.
JobThreadStep ==
    \/ run_parse /\ UNCHANGED jobFrame
    \/ run_trim /\ UNCHANGED <<jobVars, jobFrame>>
    \/ \E fault \in RunFaults : run_submit(fault) /\ UNCHANGED jobFrame
    \/ \E i \in 0..(MaxSegs - 1) : worker_take(i) /\ UNCHANGED jobFrame
    \/ \E i \in 0..(MaxSegs - 1) : worker_check(i) /\ UNCHANGED jobFrame
    \/ \E i \in 0..(MaxSegs - 1) : worker_fetch(i) /\ UNCHANGED jobFrame
    \/ \E i \in 0..(MaxSegs - 1) : worker_fail(i) /\ UNCHANGED jobFrame
    \/ \E i \in 0..(MaxSegs - 1) : worker_interrupted(i) /\ UNCHANGED jobFrame
    \/ \E i \in 0..(MaxSegs - 1) : worker_complete(i) /\ UNCHANGED jobFrame
    \/ \E i \in 0..(MaxSegs - 1) : main_loop(i) /\ UNCHANGED jobFrame
    \/ pool_exit /\ UNCHANGED jobFrame
    \/ check_abort /\ UNCHANGED jobFrame
    \/ check_retry /\ UNCHANGED jobFrame
    \/ retry_loop /\ UNCHANGED jobFrame
    \/ \E fault \in RetryFaults : retry_submit(fault) /\ UNCHANGED jobFrame
    \/ \E ffmpeg \in FfmpegResults : concatenate(ffmpeg) /\ UNCHANGED jobFrame

\* A paused job is resumed, stopped or aborted.
PauseReleased ==
    /\ is_paused
    /\ resume \/ stop \/ abort
    /\ UNCHANGED jobFrame

\* run() and the workers are scheduled, each fetch and the concat tool return,
\* and a thread that resume() has released runs before the next pause(); every
\* pause is followed by resume, stop or abort.
JobFairness == SF_vars(JobThreadStep) /\ WF_vars(PauseReleased)

SpecJobFair == InitJob /\ [][JobNext]_vars /\ JobFairness

InitClip == SMInit /\ UrlIdle /\ TrimIdle /\ JobIdle /\ ClipInit /\ SessionIdle /\ ConcIdle

SpecClip == InitClip /\ [][ClipNext]_vars

InitScan == SMInit /\ UrlIdle /\ TrimIdle /\ JobIdle /\ ScanInit /\ SessionIdle /\ ConcIdle

SpecScan == InitScan /\ [][ScanNext]_vars

InitPause == SMInit /\ UrlIdle /\ TrimIdle /\ JobIdle /\ ClipIdle /\ SessionIdle /\ PauseInit

SpecPause == InitPause /\ [][PauseNext]_vars /\ PauseFairness

InitKill == SMInit /\ UrlIdle /\ TrimIdle /\ JobIdle /\ ClipIdle /\ SessionIdle /\ KillInit

\* Time passes and the supervising thread is scheduled.
SpecKill == InitKill /\ [][KillNext]_vars /\ WF_vars(KillNext)

InitProbe == ProbeInit /\ UrlIdle /\ TrimIdle /\ JobIdle /\ ClipIdle /\ SessionIdle

SpecProbe == InitProbe /\ [][ProbeNext]_vars

InitLifecycle == LifecycleInit /\ UrlIdle /\ TrimIdle /\ JobIdle /\ ClipIdle /\ SessionIdle

SpecLifecycle == InitLifecycle /\ [][LifecycleNext]_vars

\* A step of the recording thread of session g.  The thread is a daemon thread
\* of the interpreter and is scheduled; wait(timeout=5) returns or times out.
SessionThreadStep(g) ==
    \/ \E r \in PopenResults : thread_spawn_stream(g, r) /\ UNCHANGED sessFrame
    \/ \E r \in PopenResults : thread_spawn_segmenter(g, r) /\ UNCHANGED sessFrame
    \/ thread_loop_exit(g) /\ UNCHANGED sessFrame
    \/ thread_finally_stream(g) /\ UNCHANGED sessFrame
    \/ thread_finally_segmenter(g) /\ UNCHANGED sessFrame
    \/ \E r \in WaitResults :
         thread_wait(g, "stream_proc", "wait_stream", "finally_segmenter", r) /\ UNCHANGED sessFrame
    \/ \E r \in WaitResults :
         thread_wait(g, "segmenter_proc", "wait_segmenter", "mark", r) /\ UNCHANGED sessFrame
    \/ thread_mark(g) /\ UNCHANGED sessFrame

SessionFairness == \A g \in Sessions : WF_vars(SessionThreadStep(g))

InitCard == SMInit /\ UrlIdle /\ TrimIdle /\ JobIdle /\ ClipIdle /\ SessionIdle /\ CardInit

SpecCard == InitCard /\ [][CardNext]_vars

InitSession == SMInit /\ UrlIdle /\ TrimIdle /\ JobIdle /\ ClipIdle /\ SessionIdle /\ ConcIdle

SpecSession == InitSession /\ [][SessionNext]_vars

SpecSessionFair == InitSession /\ [][SessionNext]_vars /\ SessionFairness

(***************************************************************************)
(* Claims about StreamManager, checked under Spec                          *)
(***************************************************************************)

IsStatusResult(o, c) ==
    o.name = "check_streamer_status" /\ o.streamer = c /\ o.arg \in {"live", "offline"}

\* C1: offline hysteresis.  For a channel that was last known live and has an
\* active download or clip session, an offline probe result handled at
\* confirmation counter 0 or 1 (the first and the second consecutive result)
\* emits no signal, leaves last-known-live true and advances the counter; handled
\* at counter 2 (the third consecutive result) it emits exactly one offline
\* signal, sets last-known-live false and resets the counter to 0.  Between
\* probe results nothing moves the counter or the flag while the session lasts,
\* so consecutive results walk the counter 0, 1, 2, 0.
C1_OfflineHysteresis ==
    [][\A c \in Channels :
         /\ ( /\ op' = [name |-> "check_streamer_status", streamer |-> c, arg |-> "offline"]
              /\ DictGet(last_known_status, c, FALSE)
              /\ HasActiveSession(c) )
            => LET n == DictGet(offline_confirmations, c, 0) IN
               /\ n \in {0, 1, 2}
               /\ n < 2 => /\ status_updated' = << >>
                           /\ last_known_status'[c] = TRUE
                           /\ offline_confirmations'[c] = n + 1
               /\ n = 2 => /\ status_updated' = << <<c, FALSE>> >>
                           /\ last_known_status'[c] = FALSE
                           /\ offline_confirmations'[c] = 0
         /\ ( /\ ~IsStatusResult(op', c)
              /\ HasActiveSession(c)
              /\ HasActiveSession(c)' )
            => /\ DictGet(offline_confirmations', c, 0) = DictGet(offline_confirmations, c, 0)
               /\ DictGet(last_known_status', c, FALSE) = DictGet(last_known_status, c, FALSE)
      ]_vars

\* The second consecutive offline result of a live channel with a session has
\* been handled and suppressed.
C1_Witness ==
    \E c \in Channels :
        /\ op = [name |-> "check_streamer_status", streamer |-> c, arg |-> "offline"]
        /\ HasActiveSession(c)
        /\ DictGet(last_known_status, c, FALSE)
        /\ DictGet(offline_confirmations, c, 0) = 2
        /\ status_updated = << >>

\* C2: start_download(c, ...) while c already has a session is a no-op: no
\* process is spawned and the session map, with the session's process, output
\* file, start time and filename, is unchanged; so c keeps exactly one session.
C2_StartDownloadIdempotent ==
    [][\A c \in Channels :
         ( /\ op'.name = "start_download"
           /\ op'.streamer = c
           /\ c \in DOMAIN active_downloads )
         => /\ active_downloads' = active_downloads
            /\ effects' = << >>
      ]_vars

\* start_download was called for a channel that already had a session.
C2_Witness ==
    /\ op.name = "start_download"
    /\ op.streamer \in DOMAIN active_downloads
    /\ effects = << >>

\* The one terminal signal of a job.
OneSignal(success, msg) == download_finished = << <<success, msg>> >>

\* list holds exactly the members of set, in strictly increasing order.
IsIndexOrder(list, set) ==
    /\ Range(list) = set
    /\ \A k, l \in 1..Len(list) : k < l => list[k] < list[l]

\* C3: a job that began downloading and on which abort() was called before its
\* end ends with the one signal (False, 'Download aborted by user'), with no
\* output file and with its temp directory removed.
C3_AbortDiscards ==
    (pc = "done" /\ should_abort /\ total_segments > 0)
    => /\ OneSignal(FALSE, Msg("Download aborted by user", 0, 0))
       /\ output_path = "none"
       /\ temp_dir = "removed"

\* run() ended in its except clause.
Errored == OneSignal(FALSE, Msg("Download error", 0, 0))

C5_DegradedSuccess ==
    LET N == total_segments
        K == total_segments - Cardinality(Range(completed_segments))
    IN  (pc = "done" /\ ~should_stop /\ ~should_abort /\ concat_result = "ok"
         /\ 0 < K /\ K < N)
        => /\ retry_count = max_retries
           /\ failed_segments = (0..(N - 1)) \ Range(completed_segments)
           /\ OneSignal(TRUE, Msg("Download completed with failed segments", K, 0))
           /\ IsIndexOrder(concat_list, Range(completed_segments))
           /\ output_path = "written"

\* A job ended degraded: one segment recovered in a retry round, another failed
\* every attempt.
C5_Witness ==
    /\ pc = "done" /\ ~should_stop /\ ~should_abort /\ concat_result = "ok"
    /\ failed_segments # {}
    /\ Len(completed_segments) >= 2
    /\ retry_count = max_retries
    /\ downloaded_segments + Cardinality(failed_segments) = total_segments

\* C6: whenever _concatenate_segments has run, the concat manifest lists exactly
\* the completed segments in strictly increasing manifest index, whatever the
\* order in which the workers completed them.
C6_ConcatInIndexOrder ==
    concat_result # "not run" => IsIndexOrder(concat_list, Range(completed_segments))

\* The workers completed two segments out of index order, after a retry round,
\* and the manifest was written.
C6_Witness ==
    /\ concat_result = "ok"
    /\ retry_count > 0
    /\ \E k, l \in 1..Len(completed_segments) :
          k < l /\ completed_segments[k] > completed_segments[l]

\* C7: when the trim start is at or beyond the manifest's total duration, the
\* trim window is empty, and a job with an empty window ends with the signal
\* (False, 'No segments in specified time range') without creating its temp
\* directory or a pool.
C7_StartBeyondEndFails ==
    [][/\ ( /\ pc = "parsed" /\ pc' = "trimmed"
            /\ start_time # None
            /\ start_time[1] >= Sum(segment_durations) )
          => segment_urls' = << >>
       /\ ( /\ pc = "trimmed" /\ pc' # "trimmed"
            /\ segment_urls = << >> )
          => /\ pc' = "done"
             /\ download_finished' =
                  << <<FALSE, Msg("No segments in specified time range", 0, 0)>> >>
             /\ temp_dir' = "none"
             /\ task' = << >>
      ]_vars

\* The scenario of C8: ten segments of ten seconds, start 25, duration 40.
IsScenario ==
    /\ segment_durations = ScenarioDurations
    /\ segment_urls = ManifestUrls(Len(ScenarioDurations))
    /\ start_time = Some(25)
    /\ duration = Some(40)

\* C8: for ten segments of ten seconds and a trim of start 25 and duration 40,
\* run() keeps exactly the segments with indices 2..6, the third through the
\* seventh.
C8_ScenarioSelects2To6 ==
    [][(pc = "parsed" /\ IsScenario /\ pc' = "trimmed")
       => segment_urls' = <<2, 3, 4, 5, 6>>]_vars

\* C8 as stated: the scenario keeps the indices in [2,6).
C8_ScenarioSelects2To5 ==
    [][(pc = "parsed" /\ IsScenario /\ pc' = "trimmed")
       => segment_urls' = <<2, 3, 4, 5>>]_vars

\* The scenario has been trimmed.
C8_Witness ==
    /\ pc = "trimmed"
    /\ start_time = Some(25)
    /\ duration = Some(40)
    /\ segment_durations = <<10, 10, 10, 10, 10>>

\* The time at which segment i (counted from 0) of a manifest starts and ends.
CumStart(durs, i) == Sum(SubSeq(durs, 1, i))
CumEnd(durs, i) == Sum(SubSeq(durs, 1, i + 1))

\* The reference slice [s, e) of C25: s is the first index whose cumulative end
\* exceeds start, e the first index whose cumulative start is >= end, or the
\* segment count when there is none.
RefStart(durs, start_sec) ==
    CHOOSE s \in 0..(Len(durs) - 1) :
        /\ CumEnd(durs, s) > start_sec
        /\ \A j \in 0..(s - 1) : CumEnd(durs, j) <= start_sec
RefEnd(durs, end_sec) ==
    IF \E j \in 0..(Len(durs) - 1) : CumStart(durs, j) >= end_sec
    THEN CHOOSE e \in 0..(Len(durs) - 1) :
             /\ CumStart(durs, e) >= end_sec
             /\ \A j \in 0..(e - 1) : CumStart(durs, j) < end_sec
    ELSE Len(durs)

\* The indices of the segments whose time span [CumStart, CumEnd) meets
\* [start, end), in manifest order.
RECURSIVE Intersecting(_, _, _, _)
Intersecting(durs, start_sec, end_sec, i) ==
    IF i >= Len(durs) THEN << >>
    ELSE (IF CumStart(durs, i) < end_sec /\ CumEnd(durs, i) > start_sec
          THEN <<i>> ELSE << >>)
         \o Intersecting(durs, start_sec, end_sec, i + 1)

\* The inputs C25 speaks of: positive durations and a window 0 <= start < end
\* that starts inside the manifest.
IsTrimInput ==
    /\ start_time # None
    /\ \A i \in DOMAIN segment_durations : segment_durations[i] > 0
    /\ 0 <= start_time[1]
    /\ start_time[1] < EndTime(segment_durations, start_time, duration)
    /\ start_time[1] < Sum(segment_durations)

\* C25: for positive segment durations and a window 0 <= start < end with start
\* less than the total duration, the trim keeps the contiguous slice [s, e) of
\* the manifest, s the first index whose cumulative end exceeds start and e the
\* first index whose cumulative start is >= end (the segment count if none),
\* and that slice is exactly the segments whose time span intersects
\* [start, end), in manifest order; the durations are sliced alike.
C25_TrimMatchesReference ==
    [][(pc = "parsed" /\ IsTrimInput /\ pc' = "trimmed")
       => LET end_sec == EndTime(segment_durations, start_time, duration)
              s == RefStart(segment_durations, start_time[1])
              e == RefEnd(segment_durations, end_sec)
          IN  /\ segment_urls' = [k \in 1..(e - s) |-> segment_urls[s + k]]
              /\ segment_durations' = [k \in 1..(e - s) |-> segment_durations[s + k]]
              /\ segment_urls' =
                    Intersecting(segment_durations, start_time[1], end_sec, 0)
      ]_vars

\* Three one-second segments trimmed to the window [1, 3): the first is dropped.
C25_Witness ==
    /\ pc = "trimmed"
    /\ start_time = Some(1)
    /\ duration = Some(2)
    /\ segment_urls = <<1, 2>>
    /\ segment_durations = <<1, 1>>

\* Stop or abort has been requested.
Requested == should_stop \/ should_abort

\* Once stop or abort is requested, a download_segment call that has not passed
\* its flag check issues no request, writes no file and records no segment.
NoWorkAfterRequest ==
    Requested
    => /\ \A i \in DOMAIN task \cap DOMAIN task' :
             task[i] \in {"none", "pending", "cancelled", "entered"}
             => task'[i] \notin {"fetching", "writing", "done_true"}
       /\ \A i \in Range(completed_segments') \ Range(completed_segments) :
             i \in DOMAIN task /\ task[i] = "writing"

\* C28 as stated: after stop() or abort() has been requested, no segment whose
\* download_segment call had not yet been entered issues a fetch request,
\* writes a segment file or is added to the completed set, in the initial pass
\* and in every retry round; and no new retry round is submitted.
C28_NoWorkNoRoundAfterStop ==
    [][/\ NoWorkAfterRequest
       /\ Requested => ~(pc # "retry" /\ pc' = "retry")]_vars

\* C28: after stop() or abort() has been requested, no segment whose
\* download_segment call had not yet been entered issues a fetch request,
\* writes a segment file or is added to the completed set, in the initial pass
\* and in every retry round; the retry loop begins no round whose condition is
\* evaluated after the request, and a round whose condition was evaluated
\* before it is still submitted.
C28_NoWorkAfterStop ==
    [][/\ NoWorkAfterRequest
       /\ (Requested /\ pc = "retry_loop") => pc' # "retry_submit"
       /\ (pc = "retry_submit" /\ pc' # pc) => pc' \in {"retry", "done"}]_vars

\* A retry round was submitted with stop requested, and one of its calls has
\* returned at the flag check while another was cancelled.
C28_Witness ==
    /\ pc = "retry_break"
    /\ Requested
    /\ failed_segments = {}
    /\ \E i \in DOMAIN task : task[i] = "done_false"
    /\ \E i \in DOMAIN task : task[i] = "cancelled"

\* A worker is blocked in pause_condition.wait().
Blocked(w) == call_pc[w] = "waiting"

\* stop() or abort() has set a flag and has not yet reached its wakeAll().
Stopping ==
    /\ call_local.call \in {"stop", "abort"}
    /\ call_pc[Gui] \in {"abort_stop_flag", "resume_lock", "resume_body"}

\* C27: under every interleaving of pause(), resume(), stop() and abort() with
\* the workers' _check_pause, a worker is blocked in the pause wait only while
\* the job is paused and no stop or abort has been requested (a stop() or
\* abort() that has set its flag wakes the waiters before it returns); the
\* wakeAll() of resume(), stop() and abort() leaves no worker blocked; once
\* stop() or abort() has returned no worker is blocked, whatever pause() calls
\* follow, and every worker returns from download_segment.
C27_NoLostWakeup ==
    /\ [](\A w \in PauseWorkers :
             Blocked(w) => /\ is_paused
                           /\ (should_stop \/ should_abort) => Stopping)
    /\ [][call_pc[Gui] = "resume_body" /\ call_pc'[Gui] = "idle"
          => \A w \in PauseWorkers : ~Blocked(w)']_vars
    /\ ((should_stop \/ should_abort)
          ~> [](\A w \in PauseWorkers : call_pc[w] = "returned"))

\* Both workers were blocked by a pause() and have been woken by the stop()
\* that followed it.
C27_Witness ==
    /\ should_stop
    /\ call_local = [call |-> "stop", made |-> 2]
    /\ call_pc[Gui] = "idle"
    /\ \A w \in PauseWorkers : call_pc[w] = "woken"

\* C29: for every supervised process, a stop request that graceful terminate
\* does not satisfy within a bounded wait is followed by a forced kill: the
\* routine never waits without a bound for a process that has not exited, and
\* once the stop is requested the routine finishes with every process it
\* supervises gone.
C29_StopNeverHangs ==
    /\ [](call_pc = "wait" /\ spawned[call_local.proc].state # "exited"
            => WaitBound(call_local.site) # None)
    /\ (call_pc = "terminate"
          ~> (call_pc = "finished"
              /\ \A p \in DOMAIN spawned : spawned[p].state = "exited"))

\* _handle_status_update run alone on the counter, the status and the signals
\* emitted so far.
Handled(st, is_live, active) ==
    IF is_live
    THEN [count |-> ConfirmationsAfterLive(st.count), last |-> TRUE,
          emitted |-> Append(st.emitted, <<TheChannel, TRUE>>)]
    ELSE IF NeedsConfirmation(st.last, active) /\ ~OfflineConfirmed(st.count + 1)
    THEN [st EXCEPT !.count = @ + 1]
    ELSE [count |-> 0, last |-> FALSE,
          emitted |-> Append(st.emitted, <<TheChannel, FALSE>>)]

\* The outcomes of handling the two threads' results one after the other.
SequentialOutcomes ==
    { Handled(Handled(call_local.start, call_local.of[a].is_live, HasActiveSession(TheChannel)),
              call_local.of[b].is_live, HasActiveSession(TheChannel)) :
        <<a, b>> \in {<<"p1", "p2">>, <<"p2", "p1">>} }

\* C26: for every interleaving of two concurrently completing probes of the
\* same channel, the counter, the status and the signals emitted once both are
\* handled are those of handling the two results one after the other in some
\* order, and the counter never exceeds the threshold.
C26_ProbesSerializable ==
    /\ DictGet(offline_confirmations, TheChannel, 0) <= OFFLINE_CONFIRMATIONS_NEEDED
    /\ (\A t \in Probes : call_pc[t] = "handled")
       => [count |-> DictGet(offline_confirmations, TheChannel, 0),
           last |-> DictGet(last_known_status, TheChannel, FALSE),
           emitted |-> status_updated] \in SequentialOutcomes

\* The processes the session maps refer to.
Referenced ==
    {active_downloads[c].process : c \in DOMAIN active_downloads}
    \cup UNION {{clip_buffers[c].stream_process, clip_buffers[c].segmenter_process} :
                  c \in DOMAIN clip_buffers}

\* C23: for every interleaving of two concurrent start_download(c) calls, or of
\* two concurrent stop_download(c) or stop_clipping(c) calls, no call raises;
\* once both have returned the channel has at most one session after the starts
\* and none after the stops; and no spawned capture process is running without
\* being referenced by the session map.
C23_ConcurrentIdempotent ==
    /\ \A c \in Callers : call_pc[c] # "raised"
    /\ (\A c \in Callers : call_pc[c] = "returned")
       => /\ call_local.operation # "start_download"
             => ~HasActiveSession(TheChannel) /\ TheChannel \notin DOMAIN clip_buffers
          /\ \A i \in DOMAIN spawned : spawned[i] = "running" => i \in Referenced

\* The segments whose download_segment call is submitted or running.
InHand == {i \in DOMAIN task : task[i] \in {"pending", "entered", "fetching", "writing"}}

\* C31: after the initial pass at most max_retries retry rounds run; a round
\* submits exactly the segment indices that are in the failed set when the
\* round before it (the initial pass for the first) has ended; a segment in
\* the completed set is never submitted or fetched again; and the rounds end
\* as soon as the failed set is empty.
C31_RetryRounds ==
    /\ [](retry_count <= max_retries)
    /\ [](InHand \cap Range(completed_segments) = {})
    /\ [][/\ (pc = "retry_submit" /\ pc' = "retry")
             => /\ {i \in DOMAIN task' : task'[i] = "pending"} = failed_segments
                /\ \A i \in DOMAIN task' : task'[i] \in {"pending", "none"}
                /\ retry_count' = retry_count + 1
          /\ (pc = "retry_loop" /\ pc' = "retry_submit")
             => failed_segments # {} /\ retry_count < max_retries
          /\ (pc \in {"check_retry", "retry_loop"} /\ failed_segments = {} /\ pc' # pc)
             => pc' = "check_concat"
          /\ (pc \in {"retry_loop", "retry_submit"})
             => failed_segments' = failed_segments \/ pc' \in {"retry", "done"}
         ]_vars

\* The third retry round is running over one segment that failed in every
\* pass so far, while another segment is completed.
C31_Witness ==
    /\ pc = "retry"
    /\ retry_count = max_retries
    /\ Cardinality(InHand) = 1
    /\ completed_segments # << >>
    /\ \E i \in DOMAIN task : task[i] = "fetching"

\* The requests download_segment has issued for segment i in its current call:
\* the one requests.get of line 796, none before the call reaches it.
FetchAttempts(i) == IF task[i] \in {"fetching", "writing"} THEN 1 ELSE 0

\* C32: in the downloading pass a segment is marked failed only after 3 fetch
\* attempts for it have failed, so a transient error on the first attempt does
\* not put the segment in the failed set.
C32_SegmentRetryBudget ==
    [][\A i \in DOMAIN task :
          (pc = "initial" /\ i \notin failed_segments /\ i \in failed_segments')
          => FetchAttempts(i) >= 3]_vars

\* The manifest requests parse_m3u8 has issued: the one requests.get of line
\* 728, once run() has called it.
ManifestFetches == IF pc = "start" THEN 0 ELSE 1

\* C33: the job is reported failed for a manifest fetch error only after the
\* retry budget of manifest fetches is used up, not on the first failed fetch.
C33_ManifestRetryBudget ==
    [][(pc = "start" /\ Len(download_finished') > Len(download_finished)
          /\ download_finished'[Len(download_finished')] =
                <<FALSE, Msg("Download error", 0, 0)>>)
       => ManifestFetches' > 1]_vars

\* line 827: progress = int((self.downloaded_segments / self.total_segments) * 100),
\* emitted inside download_lock.  For the segment counts of the model the
\* float expression has the value of the integer quotient.
ProgressValue(downloaded, total) == (downloaded * 100) \div total

\* C36: in every reachable state downloaded_segments equals the number of
\* entries of completed_segments and does not exceed total_segments; it never
\* decreases; so every progress percentage emitted lies in 0..100 and the
\* emitted sequence is non-decreasing.
C36_ProgressAccounting ==
    /\ [](/\ downloaded_segments = Cardinality(Range(completed_segments))
          /\ downloaded_segments <= total_segments)
    /\ [][/\ downloaded_segments' >= downloaded_segments
          /\ downloaded_segments' # downloaded_segments
             => /\ ProgressValue(downloaded_segments', total_segments') \in 0..100
                /\ total_segments' = total_segments
                /\ ProgressValue(downloaded_segments', total_segments)
                     >= ProgressValue(downloaded_segments, total_segments)]_vars

\* Two workers have completed their segments, the later index first.
C36_Witness ==
    /\ pc = "initial"
    /\ downloaded_segments = 2
    /\ completed_segments = <<1, 0>>
    /\ total_segments = 3

\* C37: in every reachable state of a segment job the completed segment
\* indices and the failed segment indices are disjoint subsets of
\* [0, total_segments).
C37_CompletedFailedDisjoint ==
    /\ Range(completed_segments) \cap failed_segments = {}
    /\ Range(completed_segments) \cup failed_segments \subseteq 0..(total_segments - 1)

\* A retry round has completed a segment that had failed, while another
\* segment has failed again.
C37_Witness ==
    /\ pc = "retry"
    /\ completed_segments # << >>
    /\ failed_segments # {}
    /\ \E i \in DOMAIN task : task[i] = "done_true"

\* The segment files of a channel's clip buffer: the listing of its temp directory.
BufferFiles(b) ==
    IF b \in DOMAIN clip_buffers
    THEN DictGet(dir_segments, clip_buffers[b].temp_dir, <<Absent>>)
    ELSE <<Absent>>

\* What StreamManager holds for one channel: its download session (with its
\* process), its clip buffer (with its two processes and its files), its
\* recording thread, its offline counter and its last known status.
ChannelState(b) ==
    <<DictGet(active_downloads, b, Absent),
      DictGet(clip_buffers, b, Absent),
      BufferFiles(b),
      DictGet(active_clips, b, Absent),
      DictGet(offline_confirmations, b, Absent),
      DictGet(last_known_status, b, Absent)>>

PerChannelOps ==
    {"start_download", "stop_download", "start_clipping", "stop_clipping", "save_clip",
     "check_streamer_status"}

\* C38: start_download, stop_download, start_clipping, stop_clipping, save_clip
\* and a status update for channel A leave channel B's download session, clip
\* buffer, recording thread, processes, offline counter and last known status
\* unchanged, for every B other than A.
C38_ChannelIndependence ==
    [][\A a, b \in Channels :
         (a # b /\ op'.name \in PerChannelOps /\ op'.streamer = a)
         => ChannelState(b)' = ChannelState(b)]_vars

\* Clipping starts for one channel while the other channel has a download
\* session, a looping recording thread and segment files.
C38_Witness ==
    \E a, b \in Channels :
        /\ a # b
        /\ op = [name |-> "start_clipping", streamer |-> a, arg |-> Absent]
        /\ effects = <<"mkdtemp", "Thread.start">>
        /\ b \in DOMAIN active_downloads
        /\ b \in DOMAIN active_clips /\ active_clips[b] = "looping"
        /\ BufferFiles(b) = SomeFiles
        /\ DictGet(last_known_status, b, FALSE)

\* C39: save_clip(c) never changes the buffering state: it adds or removes no
\* clip buffer entry and no recording thread, changes no buffer entry (so sets
\* no stop flag and ends no process), removes no temp directory and deletes no
\* segment file.
C39_SaveClipFrame ==
    [][op'.name = "save_clip"
        => /\ UNCHANGED <<clip_buffers, active_clips, temp_dirs, dir_segments>>
           /\ \A k \in DOMAIN effects' :
                 effects'[k] \notin {"terminate", "kill", "rmtree", "remove", "Thread.join"}
      ]_vars

\* save_clip has run ffmpeg over the segments of a running buffer.
C39_Witness ==
    \E c \in Channels :
        /\ op = [name |-> "save_clip", streamer |-> c, arg |-> Absent]
        /\ effects = <<"makedirs", "glob", "write concat_list", "ffmpeg">>
        /\ returned # Absent
        /\ c \in DOMAIN active_clips
        /\ clip_buffers[c].is_running
        /\ BufferFiles(c) = SomeFiles

\* C40: the name a card holds in download_filename, which it displays and
\* opens, is the name of the file the capture process of its session writes:
\* the 'filename' StreamManager.start_download stored for the channel.
C40_CardFilename ==
    \A c \in Channels :
        ( /\ call_local[c].is_downloading
          /\ call_local[c].download_filename # None
          /\ c \in DOMAIN active_downloads )
        => call_local[c].download_filename = active_downloads[c].filename

\* The recording thread of session g has not left its while-loop yet.
BeforeLoopExit(g) == threads[g].pc \in {"start", "spawned_stream", "loop"}

\* The thread of session g has spawned both processes and one has exited on
\* its own, or the stop flag of its buffer is set.
MustLeaveLoop(g) ==
    /\ BeforeLoopExit(g)
    /\ \/ buffers[g].stop_flag
       \/ threads[g].pc = "loop" /\ LoopEnds(g)

ThreadRunning(g) ==
    threads[g].stream_proc = "running" \/ threads[g].segmenter_proc = "running"

\* The buffer of session g exists and its is_running is False.
MarkedNotRunning(g) == IF threads[g].pc = "unborn" THEN FALSE ELSE ~buffers[g].is_running

\* C34: whenever a supervised process has exited on its own or the stop flag
\* is set, the recording loop eventually leaves its loop; when the recording
\* thread has finished, neither the capture source nor the segmenter is
\* running and the buffer is marked not running; and is_running is never set
\* to False while one of the two processes is still running.
C34_ClipLoopExit ==
    /\ \A g \in Sessions : MustLeaveLoop(g) ~> ~BeforeLoopExit(g)
    /\ [](\A g \in Sessions :
            threads[g].pc = "ended" => ~ThreadRunning(g) /\ MarkedNotRunning(g))
    /\ [][\A g \in Sessions :
            (~MarkedNotRunning(g) /\ MarkedNotRunning(g)') => ~ThreadRunning(g)']_vars

\* The stream ended by itself, the thread left its loop, terminated the
\* segmenter, and has marked the buffer.
C34_Witness ==
    \E g \in Sessions :
        /\ threads[g].pc = "ended"
        /\ ~buffers[g].stop_flag
        /\ buffers[g].segmenter_process = "handle"
        /\ ~buffers[g].is_running
        /\ TheChannel \in DOMAIN active_clips

\* run() has returned.
Returned == pc = "done"

\* C35: every started segment job terminates: run() eventually emits its
\* terminal signal and returns, with every worker thread finished, for every
\* pattern of segment failures and every interleaving of pause, resume, stop
\* and abort.
C35_JobTerminates ==
    /\ <>Returned
    /\ [](Returned => /\ Len(download_finished) >= 1
                       /\ \A i \in DOMAIN task :
                            task[i] \notin {"entered", "fetching", "writing"})

\* A job that was stopped during a retry round has returned, with its one
\* terminal signal.
C35_Witness ==
    /\ Returned
    /\ Len(download_finished) = 1
    /\ should_stop /\ ~should_abort
    /\ retry_count >= 1
    /\ completed_segments # << >>

\* The files of the loop's latest listing that its for-loop keeps.
Retained == SelectSeq(seg_files, LAMBDA f : f \notin Range(old_segs))

C10_SuffixRewriteOnly ==
    stored_urls # << >>
    => stored_urls[1] =
         IF EndsWith(url_line, Unmuted)
         THEN SubSeq(url_line, 1, Len(url_line) - Len(Unmuted)) \o Muted
         ELSE url_line

\* C12: a live result is never debounced.  Whatever the counter, the last known
\* status and the sessions of the channel, handling a live result emits exactly
\* one live signal, sets last-known-live and sets the counter to 0; the next
\* offline result of a channel with a session is therefore the first of a run.
C12_LiveNeverDebounced ==
    [][\A c \in Channels :
         op' = [name |-> "check_streamer_status", streamer |-> c, arg |-> "live"]
         => /\ status_updated' = << <<c, TRUE>> >>
            /\ c \in DOMAIN last_known_status' /\ last_known_status'[c] = TRUE
            /\ c \in DOMAIN offline_confirmations' /\ offline_confirmations'[c] = 0
            /\ \A d \in Channels \ {c} :
                 /\ DictGet(offline_confirmations', d, 0) = DictGet(offline_confirmations, d, 0)
                 /\ DictGet(last_known_status', d, FALSE) = DictGet(last_known_status, d, FALSE)
      ]_vars

\* A live result has been handled for a channel with a session.
C12_Witness ==
    \E c \in Channels :
        /\ op = [name |-> "check_streamer_status", streamer |-> c, arg |-> "live"]
        /\ HasActiveSession(c)
        /\ status_updated = << <<c, TRUE>> >>
        /\ offline_confirmations[c] = 0

\* C13: an offline result for a channel that has no download and no clip
\* session, or that was not last known live, emits exactly one offline signal at
\* once, sets last-known-live to false and sets the counter to 0.
C13_IdleOfflineImmediate ==
    [][\A c \in Channels :
         ( /\ op' = [name |-> "check_streamer_status", streamer |-> c, arg |-> "offline"]
           /\ ~HasActiveSession(c) \/ ~DictGet(last_known_status, c, FALSE) )
         => /\ status_updated' = << <<c, FALSE>> >>
            /\ c \in DOMAIN last_known_status' /\ last_known_status'[c] = FALSE
            /\ c \in DOMAIN offline_confirmations' /\ offline_confirmations'[c] = 0
      ]_vars

\* An offline result has been reported at once for a channel that was last
\* known live and has no session.
C13_Witness ==
    \E c \in Channels :
        /\ op = [name |-> "check_streamer_status", streamer |-> c, arg |-> "offline"]
        /\ ~HasActiveSession(c)
        /\ status_updated = << <<c, FALSE>> >>
        /\ last_known_status[c] = FALSE
        /\ \E d \in Channels \ {c} : HasActiveSession(d)

\* C14: when the probe raises, a channel with a download or clip session gets no
\* signal, a channel without one gets exactly one offline signal; in both cases
\* the last known statuses and the counters are unchanged.
C14_ProbeFailure ==
    [][\A c \in Channels :
         op' = [name |-> "check_streamer_status", streamer |-> c, arg |-> "raise"]
         => /\ status_updated' = IF HasActiveSession(c) THEN << >> ELSE << <<c, FALSE>> >>
            /\ last_known_status' = last_known_status
            /\ offline_confirmations' = offline_confirmations
      ]_vars

\* A failed probe of a channel with a session, in the middle of an offline run,
\* has been suppressed.
C14_Witness ==
    \E c \in Channels :
        /\ op = [name |-> "check_streamer_status", streamer |-> c, arg |-> "raise"]
        /\ HasActiveSession(c)
        /\ status_updated = << >>
        /\ DictGet(last_known_status, c, FALSE)
        /\ DictGet(offline_confirmations, c, 0) = 1

\* C15: stop_download(c) on a session terminates its process (terminate, the
\* bounded wait, and kill when the wait times out) and removes the entry of c
\* and no other; without a session it changes nothing and makes no call.  After
\* either, c has no entry, so a second stop_download(c) is the no-op.
C15_StopDownload ==
    [][\A c \in Channels :
         op' = [name |-> "stop_download", streamer |-> c, arg |-> Absent]
         => /\ IF c \in DOMAIN active_downloads
               THEN /\ effects' \in {<<"terminate", "wait">>, <<"terminate", "wait", "kill">>}
                    /\ active_downloads' = [d \in DOMAIN active_downloads \ {c} |->
                                               active_downloads[d]]
               ELSE /\ effects' = << >>
                    /\ active_downloads' = active_downloads
            /\ c \notin DOMAIN active_downloads'
            /\ UNCHANGED <<active_clips, clip_buffers, offline_confirmations,
                           last_known_status, temp_dirs>>
      ]_vars

\* stop_download has stopped a session whose process needed kill, and left the
\* other channel's session alone.
C15_Witness ==
    \E c \in Channels :
        /\ op = [name |-> "stop_download", streamer |-> c, arg |-> Absent]
        /\ effects = <<"terminate", "wait", "kill">>
        /\ c \notin DOMAIN active_downloads
        /\ \E d \in Channels \ {c} : d \in DOMAIN active_downloads

\* C11: save_clip(c) returns None without running the concat tool whenever c
\* has no buffer entry or the temp directory of its buffer holds no segment
\* file at the time of the call.
C11_SaveClipNothingToSave ==
    [][\A c \in Channels :
         ( /\ op' = [name |-> "save_clip", streamer |-> c, arg |-> Absent]
           /\ \/ c \notin DOMAIN clip_buffers
              \/ DictGet(dir_segments, clip_buffers[c].temp_dir, NoFiles) = NoFiles )
         => /\ returned' = Absent
            /\ "ffmpeg" \notin Range(effects')
      ]_vars

\* save_clip has returned None for a channel whose segmenter runs and has not
\* written a segment yet, while the other channel has no buffer at all.
C11_Witness ==
    \E c \in Channels :
        /\ op = [name |-> "save_clip", streamer |-> c, arg |-> Absent]
        /\ c \in DOMAIN clip_buffers
        /\ clip_buffers[c].segmenter_process = "running"
        /\ dir_segments[clip_buffers[c].temp_dir] = NoFiles
        /\ returned = Absent
        /\ effects = <<"makedirs", "glob">>

C30_SessionOutlivesProcess ==
    [][\A c \in Channels :
         /\ (c \in DOMAIN active_downloads /\ c \notin DOMAIN active_downloads')
            => op'.name \in {"stop_download", "stop_all_downloads"}
         /\ ( /\ c \in DOMAIN active_downloads
              /\ active_downloads[c].process = "exited" )
            => /\ op'.name = "start_download" /\ op'.streamer = c
                  => active_downloads' = active_downloads /\ effects' = << >>
               /\ ( /\ op' = [name |-> "check_streamer_status", streamer |-> c,
                               arg |-> "offline"]
                    /\ DictGet(last_known_status, c, FALSE)
                    /\ DictGet(offline_confirmations, c, 0) + 1 < OFFLINE_CONFIRMATIONS_NEEDED )
                  => status_updated' = << >>
      ]_vars

\* An offline result has been held back for a channel whose only session is a
\* download whose process has exited.
C30_Witness ==
    \E c \in Channels :
        /\ op = [name |-> "check_streamer_status", streamer |-> c, arg |-> "offline"]
        /\ c \in DOMAIN active_downloads
        /\ active_downloads[c].process = "exited"
        /\ c \notin DOMAIN active_clips
        /\ status_updated = << >>
        /\ DictGet(offline_confirmations, c, 0) = 1

\* str.lower() on the channel names of the model
Lower(name) == IF name = "Foo" THEN "foo" ELSE name

\* Two names that differ in letter case only.
SameChannel(a, b) == Lower(a) = Lower(b)

\* C22: channel identity is case-insensitive in every StreamManager operation:
\* start_download for a name whose channel already has a session under another
\* spelling is a no-op, stop_download for one spelling leaves no session of the
\* channel under any spelling, and the offline counter and last known status of
\* a channel are the same under all spellings.
C22_CaseInsensitive ==
    /\ [][\A c, d \in Channels :
            SameChannel(c, d)
            => /\ ( /\ op'.name = "start_download" /\ op'.streamer = c
                    /\ d \in DOMAIN active_downloads )
                  => active_downloads' = active_downloads /\ effects' = << >>
               /\ op' = [name |-> "stop_download", streamer |-> c, arg |-> Absent]
                  => d \notin DOMAIN active_downloads'
         ]_vars
    /\ [](\A c, d \in Channels :
            SameChannel(c, d)
            => /\ DictGet(offline_confirmations, c, 0) = DictGet(offline_confirmations, d, 0)
               /\ DictGet(last_known_status, c, FALSE) = DictGet(last_known_status, d, FALSE))

(***************************************************************************)
(* Claims about the clip sessions of a channel, checked under SpecSession  *)
(***************************************************************************)

ProcessRunning(g) ==
    threads[g].stream_proc = "running" \/ threads[g].segmenter_proc = "running"

ThreadAlive(g) == threads[g].pc \notin {"unborn", "ended"}

\* C16: when stop_clipping(c) has returned, c is in neither clip_buffers nor
\* active_clips, no capture or segmenter process of c is running and the temp
\* directory is removed, wherever the recording thread was in its start-up when
\* the call began.
C16_StopClippingStopsAll ==
    (gui_pc = "idle" /\ op = [name |-> "stop_clipping", streamer |-> TheChannel, arg |-> Absent])
    => /\ TheChannel \notin DOMAIN clip_buffers
       /\ TheChannel \notin DOMAIN active_clips
       /\ \A g \in Sessions : ~ProcessRunning(g)
       /\ temp_dirs = {}

\* C17: start_clipping(c) while c has a buffer creates no temp directory,
\* thread or process, and at every moment a channel has at most one buffer
\* entry, one live recording thread and one running capture/segmenter pair.
C17_SingleSession ==
    /\ [](/\ Cardinality({g \in Sessions : ThreadAlive(g)}) <= 1
          /\ Cardinality({g \in Sessions : ProcessRunning(g)}) <= 1)
    /\ [][(/\ op' = [name |-> "start_clipping", streamer |-> TheChannel, arg |-> Absent]
            /\ TheChannel \in DOMAIN clip_buffers)
           => UNCHANGED <<clip_buffers, active_clips, temp_dirs, buffers, threads>>]_vars

(***************************************************************************)
(* Claims about the end of a segment job, checked under SpecJob            *)
(***************************************************************************)

C20_ConcatFailureReported ==
    (pc = "done" /\ concat_result \in {"error", "no segments"})
    => /\ Len(download_finished) = 1
       /\ download_finished[1][1] = FALSE

\* The classes of terminal messages, by their text.
MessageClass(signal) ==
    LET text == signal[2][1] IN
    IF text = "Download completed successfully!" THEN "full success"
    ELSE IF text = "Download completed with failed segments" THEN "degraded success"
    ELSE IF text = "Partial download saved" THEN "partial save after stop"
    ELSE IF text = "Download aborted by user" THEN "abort"
    ELSE "hard failure"

\* C21: a run emits exactly one terminal signal, and the class of its message is
\* the way the job ended: full success for a job neither stopped nor aborted
\* whose segments all completed and were concatenated; degraded success the
\* same with failed segments left; partial save for a job stopped and not
\* aborted; abort for an aborted job; hard failure, with success = False and
\* no output file, otherwise.
C21_OneTerminalSignal ==
    pc = "done"
    => /\ Len(download_finished) = 1
       /\ LET signal == download_finished[1]
              class == MessageClass(signal)
              saved == concat_result = "ok" /\ output_path = "written"
          IN  /\ class = "full success"
                 => ~should_stop /\ ~should_abort /\ failed_segments = {} /\ saved /\ signal[1]
              /\ class = "degraded success"
                 => ~should_stop /\ ~should_abort /\ failed_segments # {} /\ saved /\ signal[1]
              /\ class = "partial save after stop"
                 => should_stop /\ ~should_abort /\ signal[1]
              /\ class = "abort" => should_abort /\ ~signal[1]
              /\ class = "hard failure" => ~signal[1] /\ output_path = "none"
              /\ (should_abort /\ class # "hard failure") => class = "abort"

(***************************************************************************)
(* Claims about one scan of the clip loop, checked under SpecScan          *)
(***************************************************************************)

\* C24: FIFO eviction by sequence number.  Whenever a scan evicts, the files it
\* deletes are those with the smallest sequence numbers of the listing and the
\* max_segments files it keeps are those with the largest, for every sequence
\* number that 'segment_%05d.ts' can produce.
C24_EvictsSmallestNumbers ==
    loop_pc = "scanned"
    => /\ \A old \in Range(old_segs) : \A kept \in seg_dir : old < kept
       /\ Len(seg_files) > max_segments => Cardinality(seg_dir) = max_segments

====
